---- MODULE Spec2Model ----
(***************************************************************************)
(* TradeStrategy (nautilus_trader/strategy.pyx): the order ledger, the     *)
(* order-event reducer, the modify-order buffer, the market-data cache,    *)
(* the indicator registry, the identifier generators and the lifecycle, as *)
(* a state machine.                                                        *)
(* One action per public method; the execution client and the portfolio    *)
(* are environment state (the orders' current prices, the ModifyOrder      *)
(* commands awaiting an ack, the positions).                               *)
(***************************************************************************)
EXTENDS Integers, Sequences, FiniteSets, TLC

\* ---------------------------------------------------------------- bounds
\* Cap of the order factory's id counter (one id per flatten EXIT order).
MaxOrderCount == 2
\* Prices are 0..MaxPrice.
MaxPrice == 1
\* Cap of the ModifyOrder commands one order may have awaiting an ack.
MaxInflight == 2
\* The constructor's bar_capacity argument (positive).
bar_capacity == 2
\* Cap of the bars delivered for one bar type between two resets.
MaxDelivered == 3
\* Cap of the indicators registered for one bar type.
MaxBindings == 2
\* Cap of the position id generator's counter.
MaxPositionCount == 1

\* ---------------------------------------------------------------- input sets
OrderIds == {"O1", "O2", "O3"}
PositionIds == {"P1", "P2"}
Prices == 0..MaxPrice
\* An Order as the ledger sees it: its id and the object's identity.
Orders == [id : OrderIds, obj : {1}]
MarketPositions == {"FLAT", "LONG", "SHORT"}
\* "NONE": the portfolio holds no position under the id (nothing filled yet).
PositionStates == MarketPositions \cup {"NONE"}
TerminalEvents == {"OrderRejected", "OrderCancelled", "OrderFilled", "OrderExpired"}
AckEvents == {"OrderModified", "OrderCancelReject"}
EventTypes == TerminalEvents \cup AckEvents \cup {"OrderPartiallyFilled", "TimeEvent"}
NoOrder == [id |-> "none", obj |-> 0]
Symbols == {"S1", "S2"}
Ticks == [symbol : Symbols, bid : {"t1", "t2"}]
BarTypes == {"BT1", "BT2"}
Bars == {"b1", "b2"}
Indicators == {"I1", "I2"}
TimerLabels == {"T1"}
\* The times a clock shows: a TestClock starts at the epoch.
TestClockStart ==
    [year |-> 1970, month |-> 1, day |-> 1, hour |-> 0, minute |-> 0, second |-> 0]
Times ==
    {TestClockStart,
     [TestClockStart EXCEPT !.second = 1],
     [year |-> 2019, month |-> 11, day |-> 1, hour |-> 13, minute |-> 5, second |-> 0]}

VARIABLES
    is_exec_client_registered, \* also: the portfolio is registered
    is_running,
    flatten_on_sl_reject,
    entry_orders,              \* OrderId -> Order
    stop_loss_orders,          \* OrderId -> Order
    take_profit_orders,        \* OrderId -> Order
    atomic_order_ids,          \* OrderId (parent) -> sequence of child OrderIds
    modify_order_buffer,       \* OrderId -> modified_price of the buffered modify_order
    order_count,               \* order_factory's OrderIdGenerator.counter
    positions,                 \* portfolio: PositionId -> PositionStates
    order_price,               \* execution client: OrderId -> the order's current price
    inflight,                  \* execution client: OrderId -> prices of the ModifyOrder
                               \* commands received and not yet answered, oldest first
    sent,                      \* commands the last call passed to execute_command
    hooks,                     \* user hooks the last call invoked
    last,                      \* the last call: its name and arguments
    atomic_hist,               \* history: parent OrderId -> its children as last submitted
                               \* by submit_atomic_order, and whether the parent / one of
                               \* those children has had a terminal event handled since
    flatten_on_stop,
    cancel_all_orders_on_stop,
    ticks,                     \* Symbol -> Tick
    bars,                      \* BarType -> the deque's bars, index 1 = leftmost
    indicators,                \* BarType -> sequence of Indicators
    indicator_updaters,        \* BarType -> sequence of updaters (the indicator each feeds)
    updates,                   \* indicator state: Indicator -> updates since its reset
    position_count,            \* position_id_generator.counter
    working_orders,            \* execution client: the active orders, in its dict's order
    timers,                    \* clock: the labels of the timers and time alerts set
    steps,                     \* the steps the last call went through, in program order
    hook_call,                 \* the last call's user hook: what it saw, whether it raised
    bar_hist,                  \* history: BarType -> bars delivered since the last reset
    bound_at,                  \* history: BarType -> per updater, Len(bar_hist) when it
                               \* was registered (0 again after a reset)
    is_data_client_registered,
    data_calls,                \* calls the last call made on the data client
    clock_now,                 \* clock.time_now()
    generated,                 \* history: the ids the strategy's generators produced
                               \* before the last call
    returned,                  \* what the last call returned or raised
    replay,                    \* a recorded run and its replay (see SpecReplay)
    identification,            \* the strategy's trader_id and id_tag_trader
    generator_id_tag           \* id_tag_trader of the order factory's and the position
                               \* id generator's IdentifierGenerator

vars == <<is_exec_client_registered, is_running, flatten_on_sl_reject, entry_orders,
          stop_loss_orders, take_profit_orders, atomic_order_ids, modify_order_buffer,
          order_count, positions, order_price, inflight, sent, hooks, last,
          atomic_hist, flatten_on_stop, cancel_all_orders_on_stop, ticks, bars,
          indicators, indicator_updaters, updates, position_count, working_orders,
          timers, steps, hook_call, bar_hist, bound_at, is_data_client_registered,
          data_calls, clock_now, generated, returned, replay, identification,
          generator_id_tag>>

\* ---------------------------------------------------------------- dictionaries
EmptyDict == [x \in {} |-> 0]
DropKey(d, k) == [x \in (DOMAIN d) \ {k} |-> d[x]]
Put(d, k, v) == [x \in (DOMAIN d) \cup {k} |-> IF x = k THEN v ELSE d[x]]

\* The ledger as one value, so that the helpers below compose in program order.
Ledger ==
    [entry_orders |-> entry_orders, stop_loss_orders |-> stop_loss_orders,
     take_profit_orders |-> take_profit_orders, atomic_order_ids |-> atomic_order_ids]

InRegisters(L, id) ==
    \/ id \in DOMAIN L.entry_orders
    \/ id \in DOMAIN L.stop_loss_orders
    \/ id \in DOMAIN L.take_profit_orders

\* ---------------------------------------------------------------- reducer helpers
\* _remove_from_registered_orders: an if / elif / elif chain, so one register at most.
_remove_from_registered_orders(L, id) ==
    IF id \in DOMAIN L.entry_orders
    THEN [L EXCEPT !.entry_orders = DropKey(@, id)]
    ELSE IF id \in DOMAIN L.stop_loss_orders
    THEN [L EXCEPT !.stop_loss_orders = DropKey(@, id)]
    ELSE IF id \in DOMAIN L.take_profit_orders
    THEN [L EXCEPT !.take_profit_orders = DropKey(@, id)]
    ELSE L

\* The for loop of _remove_atomic_child_orders over the child ids.
RECURSIVE RemoveEachChild(_, _)
RemoveEachChild(L, ids) ==
    IF ids = <<>> THEN L
    ELSE RemoveEachChild(_remove_from_registered_orders(L, Head(ids)), Tail(ids))

\* _remove_atomic_child_orders
_remove_atomic_child_orders(L, id) ==
    IF id \in DOMAIN L.atomic_order_ids
    THEN [RemoveEachChild(L, L.atomic_order_ids[id])
            EXCEPT !.atomic_order_ids = DropKey(@, id)]
    ELSE L

\* A reducer whose OrderFilled branch leaves the parent's map entry in place.
DropAtomicParentKeepsEntry(L, id) == L

\* The OrderFilled branch: only the parent's map entry is dropped.
DropAtomicParent(L, id) ==
    IF id \in DOMAIN L.atomic_order_ids
    THEN [L EXCEPT !.atomic_order_ids = DropKey(@, id)]
    ELSE L

\* ---------------------------------------------------------------- commands
\* get_flatten_side: no value for FLAT (the method raises ValueError).
\* A flatten that sends the order on the position's own side.
SameSide(market_position) ==
    CASE market_position = "LONG" -> "BUY"
      [] market_position = "SHORT" -> "SELL"

get_flatten_side(market_position) ==
    CASE market_position = "LONG" -> "SELL"
      [] market_position = "SHORT" -> "BUY"

SubmitOrderCommand(order, position_id) ==
    [command |-> "SubmitOrder", order |-> order, position_id |-> position_id]

\* order_factory.market(..., Label("EXIT")) for a position; n is the id counter's value.
\* Position.quantity: P1 holds 1 unit, the other positions 2.
PositionQuantity == [p \in PositionIds |-> IF p = "P1" THEN 1 ELSE 2]

ExitOrder(position_id, n) ==
    [count |-> n, side |-> get_flatten_side(positions[position_id]),
     quantity |-> PositionQuantity[position_id],
     purpose |-> "EXIT", type |-> "MARKET"]

\* submit_order: the commands it passes on (none without an execution client).
SubmitOrderSends(order, position_id) ==
    IF is_exec_client_registered THEN <<SubmitOrderCommand(order, position_id)>> ELSE <<>>

\* Position.is_entered: the portfolio creates a position on its first fill.
is_entered(position_id) == positions[position_id] # "NONE"

\* Position.is_flat
position_is_flat(position_id) == positions[position_id] = "FLAT"

\* flatten_position: does it build and submit an EXIT order? Not without an execution
\* client, not for a position the portfolio does not hold, not for a flat one.
FlattenSubmits(position_id) ==
    /\ is_exec_client_registered
    /\ is_entered(position_id)
    /\ ~position_is_flat(position_id)

\* flatten_position: the commands sent, given the id counter before the call.
FlattenPositionSends(position_id, n) ==
    IF FlattenSubmits(position_id)
    THEN SubmitOrderSends(ExitOrder(position_id, n + 1), position_id)
    ELSE <<>>

\* ---------------------------------------------------------------- identifiers
\* Strings are sequences of characters.
DigitChars == <<"0", "1", "2", "3", "4", "5", "6", "7", "8", "9">>

\* f'{n}': the decimal digits of a natural number.
RECURSIVE Digits(_)
Digits(n) ==
    IF n < 10 THEN <<DigitChars[n + 1]>>
    ELSE Digits(n \div 10) \o <<DigitChars[(n % 10) + 1]>>

\* f'{n}' in the place of f'{n:02d}'.
Unpadded(n) == Digits(n)

\* f'{n:02d}': at least two digits, zero-padded.
Pad2(n) == IF n < 10 THEN <<"0">> \o Digits(n) ELSE Digits(n)

\* IdentifierGenerator._get_datetime_tag
_get_datetime_tag(time_now) ==
    Digits(time_now.year) \o Pad2(time_now.month) \o Pad2(time_now.day)
        \o <<"-">>
        \o Pad2(time_now.hour) \o Pad2(time_now.minute) \o Pad2(time_now.second)

\* The tags the constructor hands its generators: ValidString('000') and id_tag_strategy.
id_tag_trader == <<"0", "0", "0">>
id_tag_strategy == <<"0", "0", "1">>

\* An identifier that leaves the counter out.
IdWithoutCounter(prefix, time_now, counter) ==
    <<prefix, "-">> \o _get_datetime_tag(time_now) \o <<"-">> \o generator_id_tag
        \o <<"-">> \o id_tag_strategy \o <<"-">>

\* IdentifierGenerator._generate: the string returned, counter being the incremented
\* counter.
_generate(prefix, time_now, counter) ==
    <<prefix, "-">> \o _get_datetime_tag(time_now) \o <<"-">> \o generator_id_tag
        \o <<"-">> \o id_tag_strategy \o <<"-">> \o Digits(counter)

\* The ids a call produced: the counter went from before to after by increments.
NewIds(prefix, before, after) ==
    {_generate(prefix, clock_now, n) : n \in (before + 1)..after}

\* ---------------------------------------------------------------- a call's record
Call(op, id, type, pos) ==
    [op |-> op, id |-> id, type |-> type, pos |-> pos, price |-> 0, done |-> TRUE,
     arg |-> <<>>]
Aborted(c) == [c EXCEPT !.done = FALSE]

\* ---------------------------------------------------------------- user hooks
\* What a user hook finds when it is invoked.
Observed(running, t, b, u, L, buffer, counters) ==
    [is_running |-> running, ticks |-> t, bars |-> b, updates |-> u, ledger |-> L,
     modify_order_buffer |-> buffer, counters |-> counters]

\* The identifier generators' counters.
Counters == [order_count |-> order_count, position_count |-> position_count]

\* What a call returns: nothing, a value, or an error raised.
NoValue == [kind |-> "none", value |-> <<>>]
Value(v) == [kind |-> "value", value |-> v]
Raised(error) == [kind |-> "error", value |-> error]

\* The replay record while no run is being recorded: the inputs of the run, which run
\* it is (0: none), the next input, and the commands each run has sent.
NoReplay == [script |-> <<>>, run |-> 0, pos |-> 0, first |-> <<>>, second |-> <<>>]

\* The record after a call: an input's commands are appended to the run's commands,
\* reset ends the first run, and start / stop / registration are not inputs.
Recorded(r, call, commands) ==
    IF r.run = 0 \/ call.op \in {"register_execution_client", "start", "stop"} THEN r
    ELSE IF call.op = "reset" THEN [r EXCEPT !.run = 2, !.pos = 1]
    ELSE IF r.run = 1 THEN [r EXCEPT !.pos = @ + 1, !.first = @ \o commands]
    ELSE [r EXCEPT !.pos = @ + 1, !.second = @ \o commands]

NoHookCall == [hook |-> "none", raised |-> FALSE, escaped |-> FALSE, seen |-> <<>>]

\* A call site without a try block: what the hook raises leaves the engine call.
CatchesNothing(raises) == raises

\* try: self.on_...() / except Exception as ex: self.log.exception(ex)
\* Does an exception raised by the hook leave the engine call?
Escapes(raises) == FALSE

HookCall(hook, raises, seen) ==
    [hook |-> hook, raised |-> raises, escaped |-> Escapes(raises), seen |-> seen]

Init ==
    /\ is_exec_client_registered = FALSE
    /\ is_running = FALSE
    /\ flatten_on_sl_reject \in BOOLEAN
    /\ entry_orders = EmptyDict
    /\ stop_loss_orders = EmptyDict
    /\ take_profit_orders = EmptyDict
    /\ atomic_order_ids = EmptyDict
    /\ modify_order_buffer = EmptyDict
    /\ order_count = 0
    /\ positions = [p \in PositionIds |-> "NONE"]
    /\ order_price = [o \in OrderIds |-> 0]
    /\ inflight = [o \in OrderIds |-> <<>>]
    /\ sent = <<>>
    /\ hooks = <<>>
    /\ last = Call("init", "none", "none", "none")
    /\ atomic_hist = EmptyDict
    /\ flatten_on_stop \in BOOLEAN
    /\ cancel_all_orders_on_stop \in BOOLEAN
    /\ ticks = EmptyDict
    /\ bars = EmptyDict
    /\ indicators = EmptyDict
    /\ indicator_updaters = EmptyDict
    /\ updates = [i \in Indicators |-> 0]
    /\ position_count = 0
    /\ working_orders = <<>>
    /\ timers = {}
    /\ steps = <<>>
    /\ hook_call = NoHookCall
    /\ bar_hist = [bt \in BarTypes |-> <<>>]
    /\ bound_at = EmptyDict
    /\ is_data_client_registered = FALSE
    /\ data_calls = <<>>
    /\ clock_now = TestClockStart
    /\ generated = {}
    /\ returned = NoValue
    /\ replay = NoReplay
    /\ identification = [trader_id |-> "Trader-000", id_tag_trader |-> id_tag_trader]
    /\ generator_id_tag = id_tag_trader

\* The constructor's defaults: flatten_on_sl_reject=True, flatten_on_stop=True,
\* cancel_all_orders_on_stop=True.
InitDefault ==
    /\ Init
    /\ flatten_on_sl_reject = TRUE
    /\ flatten_on_stop = TRUE
    /\ cancel_all_orders_on_stop = TRUE

EnvUnchanged == UNCHANGED <<positions, order_price, inflight>>
ConfigUnchanged == UNCHANGED <<is_exec_client_registered, flatten_on_sl_reject>>
HistoryUnchanged == UNCHANGED atomic_hist
StopFlagsUnchanged == UNCHANGED <<flatten_on_stop, cancel_all_orders_on_stop>>
DataUnchanged ==
    UNCHANGED <<ticks, bars, indicators, indicator_updaters, updates, bar_hist, bound_at>>
ClientsUnchanged == UNCHANGED <<working_orders, timers>>
IdentificationUnchanged == UNCHANGED <<identification, generator_id_tag>>
\* The ids produced so far: every id a call takes from a generator is recorded.
IdsLogged ==
    generated' = generated \cup NewIds("O", order_count, order_count')
                           \cup NewIds("P", position_count, position_count')
\* A call that returns nothing, makes no call on the data client and leaves the clock.
PlainCall ==
    /\ IdsLogged
    /\ replay' = Recorded(replay, last', sent')
    /\ IdentificationUnchanged
    /\ returned' = NoValue
    /\ data_calls' = <<>>
    /\ UNCHANGED <<clock_now, is_data_client_registered>>
\* A call that reaches no hook and touches neither the caches nor the generators.
NoHookInvoked == steps' = <<>> /\ hook_call' = NoHookCall
OrdersOnly ==
    /\ StopFlagsUnchanged /\ DataUnchanged /\ ClientsUnchanged
    /\ UNCHANGED position_count
    /\ PlainCall

SetLedger(L) ==
    /\ entry_orders' = L.entry_orders
    /\ stop_loss_orders' = L.stop_loss_orders
    /\ take_profit_orders' = L.take_profit_orders
    /\ atomic_order_ids' = L.atomic_order_ids

\* ---------------------------------------------------------------- registration
\* register_entry_order / register_stop_loss_order / register_take_profit_order
register_entry_order(order) ==
    /\ entry_orders' = Put(entry_orders, order.id, order)
    /\ sent' = <<>> /\ hooks' = <<>>
    /\ last' = Call("register_entry_order", order.id, "none", "none")
    /\ UNCHANGED <<stop_loss_orders, take_profit_orders, atomic_order_ids,
                   modify_order_buffer, order_count, is_running>>
    /\ EnvUnchanged /\ ConfigUnchanged /\ HistoryUnchanged
    /\ OrdersOnly /\ NoHookInvoked

register_stop_loss_order(order) ==
    /\ stop_loss_orders' = Put(stop_loss_orders, order.id, order)
    /\ sent' = <<>> /\ hooks' = <<>>
    /\ last' = Call("register_stop_loss_order", order.id, "none", "none")
    /\ UNCHANGED <<entry_orders, take_profit_orders, atomic_order_ids,
                   modify_order_buffer, order_count, is_running>>
    /\ EnvUnchanged /\ ConfigUnchanged /\ HistoryUnchanged
    /\ OrdersOnly /\ NoHookInvoked

register_take_profit_order(order) ==
    /\ take_profit_orders' = Put(take_profit_orders, order.id, order)
    /\ sent' = <<>> /\ hooks' = <<>>
    /\ last' = Call("register_take_profit_order", order.id, "none", "none")
    /\ UNCHANGED <<entry_orders, stop_loss_orders, atomic_order_ids,
                   modify_order_buffer, order_count, is_running>>
    /\ EnvUnchanged /\ ConfigUnchanged /\ HistoryUnchanged
    /\ OrdersOnly /\ NoHookInvoked

\* submit_entry_order / submit_stop_loss_order / submit_take_profit_order:
\* register, then submit_order.
submit_entry_order(order, position_id) ==
    /\ entry_orders' = Put(entry_orders, order.id, order)
    /\ sent' = SubmitOrderSends(order, position_id)
    /\ hooks' = <<>>
    /\ last' = Call("submit_entry_order", order.id, "none", position_id)
    /\ UNCHANGED <<stop_loss_orders, take_profit_orders, atomic_order_ids,
                   modify_order_buffer, order_count, is_running>>
    /\ EnvUnchanged /\ ConfigUnchanged /\ HistoryUnchanged
    /\ OrdersOnly /\ NoHookInvoked

submit_stop_loss_order(order, position_id) ==
    /\ stop_loss_orders' = Put(stop_loss_orders, order.id, order)
    /\ sent' = SubmitOrderSends(order, position_id)
    /\ hooks' = <<>>
    /\ last' = Call("submit_stop_loss_order", order.id, "none", position_id)
    /\ UNCHANGED <<entry_orders, take_profit_orders, atomic_order_ids,
                   modify_order_buffer, order_count, is_running>>
    /\ EnvUnchanged /\ ConfigUnchanged /\ HistoryUnchanged
    /\ OrdersOnly /\ NoHookInvoked

submit_take_profit_order(order, position_id) ==
    /\ take_profit_orders' = Put(take_profit_orders, order.id, order)
    /\ sent' = SubmitOrderSends(order, position_id)
    /\ hooks' = <<>>
    /\ last' = Call("submit_take_profit_order", order.id, "none", position_id)
    /\ UNCHANGED <<entry_orders, stop_loss_orders, atomic_order_ids,
                   modify_order_buffer, order_count, is_running>>
    /\ EnvUnchanged /\ ConfigUnchanged /\ HistoryUnchanged
    /\ OrdersOnly /\ NoHookInvoked

\* An AtomicOrder: entry, stop-loss and an optional take-profit (NoOrder when absent).
has_take_profit(atomic_order) == atomic_order.take_profit # NoOrder

ChildOrderIdsTakeProfitFirst(atomic_order) ==
    IF has_take_profit(atomic_order)
    THEN <<atomic_order.take_profit.id, atomic_order.stop_loss.id>>
    ELSE <<atomic_order.stop_loss.id>>

ChildOrderIds(atomic_order) ==
    IF has_take_profit(atomic_order)
    THEN <<atomic_order.stop_loss.id, atomic_order.take_profit.id>>
    ELSE <<atomic_order.stop_loss.id>>

\* submit_atomic_order: the ledger after the three registrations and the map entry.
AtomicRegistered(L, atomic_order) ==
    [entry_orders |-> Put(L.entry_orders, atomic_order.entry.id, atomic_order.entry),
     stop_loss_orders |->
        Put(L.stop_loss_orders, atomic_order.stop_loss.id, atomic_order.stop_loss),
     take_profit_orders |->
        IF has_take_profit(atomic_order)
        THEN Put(L.take_profit_orders, atomic_order.take_profit.id, atomic_order.take_profit)
        ELSE L.take_profit_orders,
     atomic_order_ids |->
        Put(L.atomic_order_ids, atomic_order.entry.id, ChildOrderIds(atomic_order))]

submit_atomic_order(atomic_order, position_id) ==
    /\ last' = Call("submit_atomic_order", atomic_order.entry.id, "none", position_id)
    /\ hooks' = <<>>
    /\ IF is_exec_client_registered
       THEN /\ SetLedger(AtomicRegistered(Ledger, atomic_order))
            /\ sent' = <<[command |-> "SubmitAtomicOrder", atomic_order |-> atomic_order,
                          position_id |-> position_id]>>
            /\ atomic_hist' = Put(atomic_hist, atomic_order.entry.id,
                                   [children |-> ChildOrderIds(atomic_order),
                                    parent_terminal |-> FALSE, child_terminal |-> FALSE])
       ELSE /\ SetLedger(Ledger)
            /\ sent' = <<>>
            /\ HistoryUnchanged
    /\ UNCHANGED <<modify_order_buffer, order_count, is_running>>
    /\ EnvUnchanged /\ ConfigUnchanged
    /\ OrdersOnly /\ NoHookInvoked

\* ---------------------------------------------------------------- modify buffer
ModifyOrderCommand(order_id, price) ==
    [command |-> "ModifyOrder", order_id |-> order_id, modified_price |-> price]

\* A drain that drops the buffered command unsent.
DrainResendsNever(buffer, order_id, price_now) == FALSE

\* A drain that passes the buffered command on whatever the order's price.
DrainResendsAlways(buffer, order_id, price_now) == TRUE

\* _process_modify_order_buffer: is the buffered command passed to the execution client?
\* price_now is self.order(order_id).price, the execution client's current price.
DrainResends(buffer, order_id, price_now) == buffer[order_id] # price_now

\* A modify_order that never finds a buffered command.
CoalescesNever(order_id) == FALSE

\* modify_order: a command for the order is already buffered.
Coalesces(order_id) == order_id \in DOMAIN modify_order_buffer

\* modify_order
modify_order(order, new_price) ==
    /\ last' = [Call("modify_order", order.id, "none", "none") EXCEPT !.price = new_price]
    /\ hooks' = <<>>
    /\ IF ~is_exec_client_registered
       THEN /\ sent' = <<>>
            /\ UNCHANGED <<modify_order_buffer, inflight>>
       ELSE IF Coalesces(order.id)
       THEN /\ modify_order_buffer' = Put(modify_order_buffer, order.id, new_price)
            /\ sent' = <<>>
            /\ UNCHANGED inflight
       ELSE /\ Len(inflight[order.id]) < MaxInflight
            /\ modify_order_buffer' = Put(modify_order_buffer, order.id, new_price)
            /\ sent' = <<ModifyOrderCommand(order.id, new_price)>>
            /\ inflight' = [inflight EXCEPT ![order.id] = Append(@, new_price)]
    /\ UNCHANGED <<entry_orders, stop_loss_orders, take_profit_orders, atomic_order_ids,
                   order_count, is_running, positions, order_price>>
    /\ ConfigUnchanged /\ HistoryUnchanged
    /\ OrdersOnly /\ NoHookInvoked

\* ---------------------------------------------------------------- handle_event
\* The terminal events' effect on the history of atomic submissions.
HistAfter(order_id) ==
    [e \in DOMAIN atomic_hist |->
        [atomic_hist[e] EXCEPT
            !.parent_terminal = @ \/ e = order_id,
            !.child_terminal = @ \/ \E i \in 1..Len(atomic_hist[e].children) :
                                        atomic_hist[e].children[i] = order_id]]

\* A reducer that flattens on the rejection of any order, registered stop-loss or not.
RejectFlattensAnyOrder(order_id) == flatten_on_sl_reject

\* The OrderRejected branch flattens: a registered stop-loss and the flag.
RejectFlattens(order_id) ==
    order_id \in DOMAIN stop_loss_orders /\ flatten_on_sl_reject

\* A reducer that takes a partial fill for a fill.
ReducedOnPartialFill(L, event) ==
    IF event.type \in {"OrderRejected", "OrderCancelled", "OrderExpired"}
    THEN _remove_from_registered_orders(_remove_atomic_child_orders(L, event.order_id),
                                    event.order_id)
    ELSE IF event.type \in {"OrderFilled", "OrderPartiallyFilled"}
    THEN _remove_from_registered_orders(DropAtomicParent(L, event.order_id), event.order_id)
    ELSE L

\* The ledger after the event's branch.
Reduced(L, event) ==
    IF event.type \in {"OrderRejected", "OrderCancelled", "OrderExpired"}
    THEN _remove_from_registered_orders(_remove_atomic_child_orders(L, event.order_id),
                                    event.order_id)
    ELSE IF event.type = "OrderFilled"
    THEN _remove_from_registered_orders(DropAtomicParent(L, event.order_id), event.order_id)
    ELSE L

\* A handle_event that leaves the event to a later call.
OnEventHookNever == <<>>

OnEventHook == IF is_running THEN <<"on_event">> ELSE <<>>

\* handle_event(event), the execution client holding price_now / waiting as the orders'
\* prices and unanswered ModifyOrder commands when the event is delivered; position_id
\* is the portfolio's answer to get_position_for_order(event.order_id).
handle_event_on(event, position_id, price_now, waiting) ==
    LET id == event.order_id
        c == Call("handle_event", id, event.type, position_id)
    IN
    /\ order_price' = price_now
    /\ UNCHANGED <<is_running, positions>>
    /\ ConfigUnchanged
    /\ IF event.type = "OrderRejected" /\ RejectFlattens(id) /\ ~is_exec_client_registered
       THEN \* self._portfolio is None: the call ends at the lookup
            /\ last' = Aborted(c)
            /\ sent' = <<>> /\ hooks' = <<>>
            /\ inflight' = waiting
            /\ UNCHANGED <<entry_orders, stop_loss_orders, take_profit_orders,
                           atomic_order_ids, modify_order_buffer, order_count>>
            /\ HistoryUnchanged
       ELSE IF event.type = "OrderRejected"
       THEN LET flattens == /\ RejectFlattens(id)
                            /\ is_entered(position_id)
                            /\ FlattenSubmits(position_id)
            IN  /\ flattens => order_count < MaxOrderCount
                /\ sent' = IF RejectFlattens(id) /\ is_entered(position_id)
                           THEN FlattenPositionSends(position_id, order_count)
                           ELSE <<>>
                /\ order_count' = IF flattens THEN order_count + 1 ELSE order_count
                /\ SetLedger(Reduced(Ledger, event))
                /\ atomic_hist' = HistAfter(id)
                /\ inflight' = waiting
                /\ hooks' = OnEventHook
                /\ last' = c
                /\ UNCHANGED modify_order_buffer
       ELSE IF event.type \in AckEvents
       THEN /\ IF id \in DOMAIN modify_order_buffer
               THEN /\ modify_order_buffer' = DropKey(modify_order_buffer, id)
                    /\ IF DrainResends(modify_order_buffer, id, price_now[id])
                       THEN /\ sent' = <<ModifyOrderCommand(id, modify_order_buffer[id])>>
                            /\ inflight' = [waiting EXCEPT
                                               ![id] = Append(@, modify_order_buffer[id])]
                       ELSE /\ sent' = <<>>
                            /\ inflight' = waiting
               ELSE /\ sent' = <<>>
                    /\ inflight' = waiting
                    /\ UNCHANGED modify_order_buffer
            /\ hooks' = OnEventHook
            /\ last' = c
            /\ UNCHANGED <<entry_orders, stop_loss_orders, take_profit_orders,
                           atomic_order_ids, order_count>>
            /\ HistoryUnchanged
       ELSE /\ SetLedger(Reduced(Ledger, event))
            /\ atomic_hist' = IF event.type \in TerminalEvents
                              THEN HistAfter(id) ELSE atomic_hist
            /\ sent' = <<>>
            /\ inflight' = waiting
            /\ hooks' = OnEventHook
            /\ last' = c
            /\ UNCHANGED <<modify_order_buffer, order_count>>
    /\ StopFlagsUnchanged /\ DataUnchanged
    /\ UNCHANGED <<position_count, timers>>
    /\ steps' = <<>>
    /\ IF hooks' = <<>>
       THEN hook_call' = NoHookCall
       ELSE \E raises \in BOOLEAN :
                hook_call' = HookCall("on_event", raises,
                                      Observed(is_running, ticks, bars, updates, Ledger',
                                               modify_order_buffer', Counters'))
    /\ PlainCall

\* The execution client's active orders once it has produced the event.
StillWorking(event) ==
    IF event.type \in TerminalEvents
    THEN SelectSeq(working_orders, LAMBDA o : o # event.order_id)
    ELSE working_orders

\* handle_event(event)
handle_event(event, position_id) ==
    /\ handle_event_on(event, position_id, order_price, inflight)
    /\ working_orders' = StillWorking(event)

\* ---------------------------------------------------------------- environment
\* The registered execution client delivers an order event.
ExecDelivers(event, position_id) ==
    /\ is_exec_client_registered
    /\ handle_event(event, position_id)

\* The clock's handler (registered in __init__) delivers a TimeEvent.
ClockDelivers ==
    handle_event([type |-> "TimeEvent", order_id |-> "none"], "none")

\* The execution client answers the oldest unanswered ModifyOrder of an order:
\* OrderModified (the order takes the command's price) or OrderCancelReject (it keeps
\* its price), and delivers the event to handle_event.
ExecAnswersModify(order_id, type) ==
    /\ is_exec_client_registered
    /\ inflight[order_id] # <<>>
    /\ LET p == Head(inflight[order_id])
           price_now == IF type = "OrderModified"
                        THEN [order_price EXCEPT ![order_id] = p] ELSE order_price
           waiting == [inflight EXCEPT ![order_id] = Tail(@)]
       IN handle_event_on([type |-> type, order_id |-> order_id], "none", price_now, waiting)
    /\ UNCHANGED working_orders

\* The portfolio opens a position on a first fill and closes an open one.
PortfolioUpdate(position_id, market_position) ==
    /\ \/ positions[position_id] = "NONE" /\ market_position \in {"LONG", "SHORT"}
       \/ positions[position_id] \in {"LONG", "SHORT"} /\ market_position = "FLAT"
    /\ positions' = [positions EXCEPT ![position_id] = market_position]
    /\ sent' = <<>> /\ hooks' = <<>>
    /\ last' = Call("portfolio", "none", market_position, position_id)
    /\ UNCHANGED <<entry_orders, stop_loss_orders, take_profit_orders, atomic_order_ids,
                   modify_order_buffer, order_count, is_running, order_price, inflight>>
    /\ ConfigUnchanged /\ HistoryUnchanged
    /\ OrdersOnly /\ NoHookInvoked

\* ---------------------------------------------------------------- host
\* register_execution_client
register_execution_client ==
    /\ is_exec_client_registered' = TRUE
    /\ sent' = <<>> /\ hooks' = <<>>
    /\ last' = Call("register_execution_client", "none", "none", "none")
    /\ UNCHANGED <<entry_orders, stop_loss_orders, take_profit_orders, atomic_order_ids,
                   modify_order_buffer, order_count, is_running, flatten_on_sl_reject>>
    /\ EnvUnchanged /\ HistoryUnchanged
    /\ OrdersOnly /\ NoHookInvoked

\* start
start ==
    /\ is_running' = TRUE
    /\ sent' = <<>> /\ hooks' = <<"on_start">>
    /\ last' = Call("start", "none", "none", "none")
    /\ UNCHANGED <<entry_orders, stop_loss_orders, take_profit_orders, atomic_order_ids,
                   modify_order_buffer, order_count>>
    /\ EnvUnchanged /\ ConfigUnchanged /\ HistoryUnchanged
    /\ OrdersOnly
    /\ steps' = <<>>
    /\ \E raises \in BOOLEAN :
            hook_call' = HookCall("on_start", raises,
                                  Observed(is_running', ticks, bars, updates, Ledger,
                                           modify_order_buffer, Counters))

\* ---------------------------------------------------------------- market data
\* A deque that puts the new bar at the right end.
appendright(d, bar) ==
    IF Len(d) + 1 > bar_capacity
    THEN SubSeq(d \o <<bar>>, 2, Len(d) + 1)
    ELSE d \o <<bar>>

\* deque(maxlen=self.bar_capacity).appendleft(bar): a full deque drops its right end.
appendleft(d, bar) ==
    IF Len(d) + 1 > bar_capacity
    THEN SubSeq(<<bar>> \o d, 1, bar_capacity)
    ELSE <<bar>> \o d

\* handle_bar's cache update: the deque is created on the bar type's first bar.
BarsAfter(b, bar_type, bar) ==
    LET created == IF bar_type \in DOMAIN b THEN b ELSE Put(b, bar_type, <<>>)
    IN [created EXCEPT ![bar_type] = appendleft(@, bar)]

\* IndicatorUpdater.update_bar: the indicator takes one more update.
update_bar(u, indicator) == [u EXCEPT ![indicator] = @ + 1]

\* A loop that feeds the bar type's first updater only.
UpdateFirst(u, updaters) ==
    IF updaters = <<>> THEN u ELSE update_bar(u, Head(updaters))

\* The for loop of handle_bar over the bar type's updaters.
RECURSIVE UpdateEach(_, _)
UpdateEach(u, updaters) ==
    IF updaters = <<>> THEN u
    ELSE UpdateEach(update_bar(u, Head(updaters)), Tail(updaters))

\* handle_bar's updater part (guarded by bar_type in self._indicators).
UpdatesAfter(u, bar_type) ==
    IF bar_type \in DOMAIN indicators
    THEN UpdateEach(u, indicator_updaters[bar_type])
    ELSE u

\* A hook invoked whether or not the strategy is running.
HookAlways(hook) == <<hook>>

\* if self.is_running: the hook of a handle_tick / handle_bar call is invoked.
HookIfRunning(hook) == IF is_running THEN <<hook>> ELSE <<>>

\* A hook invoked before the call's own updates.
StaleView(before, after) == before

\* The hook is the last statement of handle_tick / handle_bar: it finds the call's updates.
HookView(before, after) == after

\* The try block around a handler's hook.
InvokeHook(hook, seen) ==
    IF hooks' = <<>>
    THEN hook_call' = NoHookCall
    ELSE \E raises \in BOOLEAN : hook_call' = HookCall(hook, raises, seen)

\* handle_tick(tick)
handle_tick(tick) ==
    /\ ticks' = Put(ticks, tick.symbol, tick)
    /\ hooks' = HookIfRunning("on_tick")
    /\ InvokeHook("on_tick",
                  Observed(is_running, HookView(ticks, ticks'), bars, updates, Ledger,
                           modify_order_buffer, Counters))
    /\ last' = [Call("handle_tick", tick.symbol, "none", "none") EXCEPT !.arg = tick]
    /\ sent' = <<>> /\ steps' = <<>>
    /\ UNCHANGED <<entry_orders, stop_loss_orders, take_profit_orders, atomic_order_ids,
                   modify_order_buffer, order_count, is_running, position_count,
                   bars, indicators, indicator_updaters, updates, bar_hist, bound_at>>
    /\ EnvUnchanged /\ ConfigUnchanged /\ HistoryUnchanged
    /\ StopFlagsUnchanged /\ ClientsUnchanged
    /\ PlainCall

\* handle_bar(bar_type, bar)
handle_bar(bar_type, bar) ==
    /\ Len(bar_hist[bar_type]) < MaxDelivered
    /\ bars' = BarsAfter(bars, bar_type, bar)
    /\ updates' = UpdatesAfter(updates, bar_type)
    /\ bar_hist' = [bar_hist EXCEPT ![bar_type] = Append(@, bar)]
    /\ hooks' = HookIfRunning("on_bar")
    /\ InvokeHook("on_bar",
                  Observed(is_running, ticks, HookView(bars, bars'),
                           HookView(updates, updates'), Ledger, modify_order_buffer,
                           Counters))
    /\ last' = [Call("handle_bar", bar_type, "none", "none") EXCEPT !.arg = bar]
    /\ sent' = <<>> /\ steps' = <<>>
    /\ UNCHANGED <<entry_orders, stop_loss_orders, take_profit_orders, atomic_order_ids,
                   modify_order_buffer, order_count, is_running, position_count,
                   ticks, indicators, indicator_updaters, bound_at>>
    /\ EnvUnchanged /\ ConfigUnchanged /\ HistoryUnchanged
    /\ StopFlagsUnchanged /\ ClientsUnchanged
    /\ PlainCall

\* The list a registration appends to (created on the bar type's first registration).
Registered(d, bar_type, x) ==
    IF bar_type \in DOMAIN d
    THEN [d EXCEPT ![bar_type] = Append(@, x)]
    ELSE Put(d, bar_type, <<x>>)

\* register_indicator(bar_type, indicator, update_method)
register_indicator(bar_type, indicator) ==
    /\ bar_type \in DOMAIN indicators => Len(indicators[bar_type]) < MaxBindings
    /\ indicators' = Registered(indicators, bar_type, indicator)
    /\ indicator_updaters' = Registered(indicator_updaters, bar_type, indicator)
    /\ bound_at' = Registered(bound_at, bar_type, Len(bar_hist[bar_type]))
    /\ last' = [Call("register_indicator", bar_type, "none", "none")
                    EXCEPT !.arg = indicator]
    /\ sent' = <<>> /\ hooks' = <<>>
    /\ NoHookInvoked
    /\ UNCHANGED <<entry_orders, stop_loss_orders, take_profit_orders, atomic_order_ids,
                   modify_order_buffer, order_count, is_running, position_count,
                   ticks, bars, updates, bar_hist>>
    /\ EnvUnchanged /\ ConfigUnchanged /\ HistoryUnchanged
    /\ StopFlagsUnchanged /\ ClientsUnchanged
    /\ PlainCall

\* ---------------------------------------------------------------- lifecycle
\* Portfolio.is_strategy_flat: no position of the strategy is long or short.
is_strategy_flat == \A p \in PositionIds : positions[p] \notin {"LONG", "SHORT"}

\* Portfolio.get_positions_active: the open positions; the dict's order is the portfolio's.
positions_active == {p \in PositionIds : positions[p] \in {"LONG", "SHORT"}}
Orderings(S) ==
    {f \in [1..Cardinality(S) -> S] : \A i, j \in 1..Cardinality(S) : f[i] = f[j] => i = j}

\* The for loop of flatten_all_positions: an EXIT order per position that is not flat,
\* n being the order id counter before the position's turn.
RECURSIVE FlattenEach(_, _)
FlattenEach(position_ids, n) ==
    IF position_ids = <<>> THEN <<>>
    ELSE IF position_is_flat(Head(position_ids))
    THEN FlattenEach(Tail(position_ids), n)
    ELSE SubmitOrderSends(ExitOrder(Head(position_ids), n + 1), Head(position_ids))
            \o FlattenEach(Tail(position_ids), n + 1)

\* flatten_all_positions: the commands sent (none without an execution client).
FlattenAllSends(position_ids, n) ==
    IF is_exec_client_registered THEN FlattenEach(position_ids, n) ELSE <<>>

CancelOrderCommand(order_id, cancel_reason) ==
    [command |-> "CancelOrder", order_id |-> order_id, cancel_reason |-> cancel_reason]

\* cancel_all_orders: a CancelOrder per active order (none without an execution client).
CancelAllSends(cancel_reason) ==
    IF is_exec_client_registered
    THEN [i \in 1..Len(working_orders) |->
            CancelOrderCommand(working_orders[i], cancel_reason)]
    ELSE <<>>

\* A stop that cancels the orders before it flattens.
StopSendsCancelsFirst(exits, cancels) == cancels \o exits

\* stop: the positions are cleaned up before the orders.
StopSends(exits, cancels) == exits \o cancels

\* A stop that calls on_stop before it clears is_running.
RunningAtOnStopAsBefore(before) == before

\* stop: is_running as on_stop finds it (self.is_running = False comes first).
RunningAtOnStop(before) == FALSE

\* One step of a call: what it does, is_running and the commands sent at that point.
Step(do, running, nsent) == [do |-> do, is_running |-> running, nsent |-> nsent]

\* stop's steps up to the positions' clean-up.
ClockCleanUp == <<Step("cancel_all_time_alerts", is_running, 0),
                  Step("cancel_all_timers", is_running, 0)>>

\* stop(). With flatten_on_stop and no portfolio registered, is_flat() dereferences
\* None (nonecheck=False): deref is what that does, end the call ("ends") or answer
\* something ("flat", "not_flat"). position_ids is the order of the portfolio's dict.
stop(deref, position_ids) ==
    LET c == Call("stop", "none", "none", "none")
        asks == flatten_on_stop
        flat == IF is_exec_client_registered THEN is_strategy_flat ELSE deref = "flat"
        flattens == asks /\ ~flat
        exits == IF flattens THEN FlattenAllSends(position_ids, order_count) ELSE <<>>
        cancels == IF cancel_all_orders_on_stop
                   THEN CancelAllSends("STOPPING STRATEGY") ELSE <<>>
    IN
    /\ timers' = {}
    /\ UNCHANGED <<entry_orders, stop_loss_orders, take_profit_orders, atomic_order_ids,
                   modify_order_buffer, position_count, working_orders>>
    /\ EnvUnchanged /\ ConfigUnchanged /\ HistoryUnchanged
    /\ StopFlagsUnchanged /\ DataUnchanged
    /\ IF asks /\ ~is_exec_client_registered /\ deref = "ends"
       THEN /\ last' = Aborted(c)
            /\ steps' = ClockCleanUp
            /\ sent' = <<>> /\ hooks' = <<>>
            /\ hook_call' = NoHookCall
            /\ UNCHANGED <<is_running, order_count>>
       ELSE /\ order_count + Len(exits) <= MaxOrderCount
            /\ last' = c
            /\ sent' = StopSends(exits, cancels)
            /\ order_count' = order_count + Len(exits)
            /\ is_running' = FALSE
            /\ steps' = ClockCleanUp
                    \o (IF flattens
                        THEN <<Step("flatten_all_positions", is_running, Len(exits))>>
                        ELSE <<>>)
                    \o (IF cancel_all_orders_on_stop
                        THEN <<Step("cancel_all_orders", is_running, Len(sent'))>>
                        ELSE <<>>)
                    \o <<Step("is_running = False", FALSE, Len(sent')),
                         Step("residual warnings", FALSE, Len(sent')),
                         Step("on_stop", RunningAtOnStop(is_running), Len(sent'))>>
            /\ hooks' = <<"on_stop">>
            /\ \E raises \in BOOLEAN :
                    hook_call' = HookCall("on_stop", raises,
                                          Observed(RunningAtOnStop(is_running), ticks, bars,
                                                   updates, Ledger, modify_order_buffer,
                                                   Counters'))
    /\ PlainCall

\* IdentifierGenerator.reset
generator_reset == 0

\* IdentifierGenerator._generate: the counter after the call.
generate(counter) == counter + 1

\* A generator constructed as if it had already produced an id.
generator_from_one == generate(generator_reset)

\* IdentifierGenerator.__init__: the counter of a new generator.
generator_new == 0

\* The strategy takes a position id from position_id_generator.
generate_position_id ==
    /\ position_count < MaxPositionCount
    /\ position_count' = generate(position_count)
    /\ last' = Call("generate_position_id", "none", "none", "none")
    /\ sent' = <<>> /\ hooks' = <<>>
    /\ NoHookInvoked
    /\ UNCHANGED <<entry_orders, stop_loss_orders, take_profit_orders, atomic_order_ids,
                   modify_order_buffer, order_count, is_running>>
    /\ EnvUnchanged /\ ConfigUnchanged /\ HistoryUnchanged
    /\ StopFlagsUnchanged /\ DataUnchanged /\ ClientsUnchanged
    /\ IdsLogged
    /\ replay' = Recorded(replay, last', sent')
    /\ IdentificationUnchanged
    /\ returned' = Value(_generate("P", clock_now, position_count'))
    /\ data_calls' = <<>>
    /\ UNCHANGED <<clock_now, is_data_client_registered>>

\* The strategy builds an order with order_factory, which takes an order id.
generate_order_id ==
    /\ order_count < MaxOrderCount
    /\ order_count' = generate(order_count)
    /\ last' = Call("generate_order_id", "none", "none", "none")
    /\ sent' = <<>> /\ hooks' = <<>>
    /\ NoHookInvoked
    /\ UNCHANGED <<entry_orders, stop_loss_orders, take_profit_orders, atomic_order_ids,
                   modify_order_buffer, position_count, is_running>>
    /\ EnvUnchanged /\ ConfigUnchanged /\ HistoryUnchanged
    /\ StopFlagsUnchanged /\ DataUnchanged /\ ClientsUnchanged
    /\ IdsLogged
    /\ replay' = Recorded(replay, last', sent')
    /\ IdentificationUnchanged
    /\ returned' = Value(_generate("O", clock_now, order_count'))
    /\ data_calls' = <<>>
    /\ UNCHANGED <<clock_now, is_data_client_registered>>

\* Indicator.reset on a list of indicators.
RECURSIVE ResetEach(_, _)
ResetEach(u, indicator_list) ==
    IF indicator_list = <<>> THEN u
    ELSE ResetEach([u EXCEPT ![Head(indicator_list)] = 0], Tail(indicator_list))

\* The loop of reset over self._indicators.values().
RECURSIVE ResetAll(_, _)
ResetAll(u, bar_types) ==
    IF bar_types = {} THEN u
    ELSE LET bt == CHOOSE x \in bar_types : TRUE
         IN ResetAll(ResetEach(u, indicators[bt]), bar_types \ {bt})

\* A reset that goes on although the strategy is running.
\* A reset that returns the order registers to their initial value.
RegistersCleared(L) ==
    [entry_orders |-> EmptyDict, stop_loss_orders |-> EmptyDict,
     take_profit_orders |-> EmptyDict, atomic_order_ids |-> EmptyDict]

\* reset assigns none of the order registers, refused or not: they are what they were.
RegistersAfterReset(L) == L

ResetRefusedNever == FALSE

\* reset: if self.is_running: log the error and return.
ResetRefused == is_running

\* A reset that leaves the bars where they are.
ClearedBarsKept(b) == b

\* reset: self._bars = {}
ClearedBars(b) == EmptyDict

\* reset()
reset ==
    /\ last' = Call("reset", "none", "none", "none")
    /\ sent' = <<>>
    /\ SetLedger(RegistersAfterReset(Ledger))
    /\ UNCHANGED <<modify_order_buffer, is_running, indicators, indicator_updaters>>
    /\ EnvUnchanged /\ ConfigUnchanged /\ HistoryUnchanged
    /\ StopFlagsUnchanged /\ ClientsUnchanged
    /\ IF ResetRefused
       THEN /\ hooks' = <<>>
            /\ NoHookInvoked
            /\ UNCHANGED <<order_count, position_count, ticks, bars, updates, bar_hist,
                           bound_at>>
       ELSE /\ order_count' = generator_reset
            /\ position_count' = generator_reset
            /\ ticks' = EmptyDict
            /\ bars' = ClearedBars(bars)
            /\ updates' = ResetAll(updates, DOMAIN indicators)
            /\ bar_hist' = [bt \in BarTypes |-> <<>>]
            /\ bound_at' = [bt \in DOMAIN bound_at |->
                                [i \in 1..Len(bound_at[bt]) |-> 0]]
            /\ steps' = <<Step("order_factory.reset", is_running, 0),
                          Step("position_id_generator.reset", is_running, 0),
                          Step("ticks = {}", is_running, 0),
                          Step("bars = {}", is_running, 0),
                          Step("indicator.reset", is_running, 0),
                          Step("on_reset", is_running, 0)>>
            /\ hooks' = <<"on_reset">>
            /\ \E raises \in BOOLEAN :
                    hook_call' = HookCall("on_reset", raises,
                                          Observed(is_running, ticks', bars', updates',
                                                   Ledger, modify_order_buffer, Counters'))
    /\ PlainCall

\* dispose()
dispose ==
    /\ last' = Call("dispose", "none", "none", "none")
    /\ sent' = <<>> /\ steps' = <<>>
    /\ hooks' = <<"on_dispose">>
    /\ \E raises \in BOOLEAN :
            hook_call' = HookCall("on_dispose", raises,
                                  Observed(is_running, ticks, bars, updates, Ledger,
                                           modify_order_buffer, Counters))
    /\ UNCHANGED <<entry_orders, stop_loss_orders, take_profit_orders, atomic_order_ids,
                   modify_order_buffer, order_count, position_count, is_running>>
    /\ EnvUnchanged /\ ConfigUnchanged /\ HistoryUnchanged
    /\ StopFlagsUnchanged /\ DataUnchanged /\ ClientsUnchanged
    /\ PlainCall

\* The clock: the strategy sets a timer or a time alert.
set_timer(label) ==
    /\ label \notin timers
    /\ timers' = timers \cup {label}
    /\ last' = Call("set_timer", label, "none", "none")
    /\ sent' = <<>> /\ hooks' = <<>>
    /\ NoHookInvoked
    /\ UNCHANGED <<entry_orders, stop_loss_orders, take_profit_orders, atomic_order_ids,
                   modify_order_buffer, order_count, position_count, is_running,
                   working_orders>>
    /\ EnvUnchanged /\ ConfigUnchanged /\ HistoryUnchanged
    /\ StopFlagsUnchanged /\ DataUnchanged
    /\ PlainCall

\* set_time(time): the clock shows the given time.
set_time(time) ==
    /\ clock_now' = time
    /\ last' = [Call("set_time", "none", "none", "none") EXCEPT !.arg = time]
    /\ sent' = <<>> /\ hooks' = <<>>
    /\ NoHookInvoked
    /\ UNCHANGED <<entry_orders, stop_loss_orders, take_profit_orders, atomic_order_ids,
                   modify_order_buffer, order_count, position_count, is_running>>
    /\ EnvUnchanged /\ ConfigUnchanged /\ HistoryUnchanged
    /\ StopFlagsUnchanged /\ DataUnchanged /\ ClientsUnchanged
    /\ IdsLogged
    /\ replay' = Recorded(replay, last', sent')
    /\ IdentificationUnchanged
    /\ returned' = NoValue
    /\ data_calls' = <<>>
    /\ UNCHANGED is_data_client_registered

\* change_clock(clock): the strategy takes the given clock, which shows time and has no
\* timer set, and builds a new order factory and a new position id generator on it.
change_clock(time) ==
    /\ clock_now' = time
    /\ timers' = {}
    /\ order_count' = generator_new
    /\ position_count' = generator_new
    /\ last' = [Call("change_clock", "none", "none", "none") EXCEPT !.arg = time]
    /\ sent' = <<>> /\ hooks' = <<>>
    /\ NoHookInvoked
    /\ UNCHANGED <<entry_orders, stop_loss_orders, take_profit_orders, atomic_order_ids,
                   modify_order_buffer, is_running, working_orders>>
    /\ EnvUnchanged /\ ConfigUnchanged /\ HistoryUnchanged
    /\ StopFlagsUnchanged /\ DataUnchanged
    /\ IdsLogged
    /\ replay' = Recorded(replay, last', sent')
    /\ generator_id_tag' = identification.id_tag_trader
    /\ UNCHANGED identification
    /\ returned' = NoValue
    /\ data_calls' = <<>>
    /\ UNCHANGED is_data_client_registered

\* The execution client puts an order to work and reports it (OrderWorking).
ExecWorks(order_id) ==
    /\ is_exec_client_registered
    /\ \A i \in 1..Len(working_orders) : working_orders[i] # order_id
    /\ working_orders' = Append(working_orders, order_id)
    /\ handle_event_on([type |-> "OrderWorking", order_id |-> order_id], "none",
                       order_price, inflight)

\* The cache accessors (each raises for a bar type / symbol the cache does not hold).
bars_of(bar_type) == bars[bar_type]
\* An accessor that counts from the oldest bar.
bar_oldest_first(bar_type, index) == bars[bar_type][Len(bars[bar_type]) - index]
bar(bar_type, index) == bars[bar_type][index + 1]
last_bar(bar_type) == bars[bar_type][1]
last_tick(symbol) == ticks[symbol]

\* ---------------------------------------------------------------- commands
\* A command method that touches nothing but what it sends.
SendsOnly ==
    /\ hooks' = <<>>
    /\ UNCHANGED <<entry_orders, stop_loss_orders, take_profit_orders, atomic_order_ids,
                   modify_order_buffer, is_running>>
    /\ EnvUnchanged /\ ConfigUnchanged /\ HistoryUnchanged
    /\ NoHookInvoked

\* submit_order(order, position_id)
submit_order(order, position_id) ==
    /\ last' = Call("submit_order", order.id, "none", position_id)
    /\ sent' = SubmitOrderSends(order, position_id)
    /\ UNCHANGED order_count
    /\ SendsOnly /\ OrdersOnly

\* cancel_order(order, cancel_reason), the reason a valid string.
cancel_order(order, cancel_reason) ==
    /\ last' = Call("cancel_order", order.id, "none", "none")
    /\ sent' = IF is_exec_client_registered
               THEN <<CancelOrderCommand(order.id, cancel_reason)>> ELSE <<>>
    /\ UNCHANGED order_count
    /\ SendsOnly /\ OrdersOnly

\* cancel_all_orders(cancel_reason)
cancel_all_orders(cancel_reason) ==
    /\ last' = Call("cancel_all_orders", "none", "none", "none")
    /\ sent' = CancelAllSends(cancel_reason)
    /\ UNCHANGED order_count
    /\ SendsOnly /\ OrdersOnly

\* flatten_position(position_id). For an id the portfolio holds no position under,
\* get_position gives None and position.is_flat reads it: the call ends there (deref
\* "ends") or goes on as for a flat position ("flat").
flatten_position(position_id, deref) ==
    LET c == Call("flatten_position", "none", "none", position_id)
        missing == is_exec_client_registered /\ ~is_entered(position_id)
    IN
    /\ FlattenSubmits(position_id) => order_count < MaxOrderCount
    /\ last' = IF missing /\ deref = "ends" THEN Aborted(c) ELSE c
    /\ sent' = FlattenPositionSends(position_id, order_count)
    /\ order_count' = order_count + Len(sent')
    /\ SendsOnly /\ OrdersOnly

\* flatten_all_positions(), position_ids being get_positions_active in its dict's order.
flatten_all_positions(position_ids) ==
    /\ order_count + Len(FlattenAllSends(position_ids, order_count)) <= MaxOrderCount
    /\ last' = Call("flatten_all_positions", "none", "none", "none")
    /\ sent' = FlattenAllSends(position_ids, order_count)
    /\ order_count' = order_count + Len(sent')
    /\ SendsOnly /\ OrdersOnly

\* ---------------------------------------------------------------- data client
\* register_data_client
register_data_client ==
    /\ is_data_client_registered' = TRUE
    /\ last' = Call("register_data_client", "none", "none", "none")
    /\ sent' = <<>> /\ data_calls' = <<>>
    /\ UNCHANGED <<order_count, position_count, clock_now>>
    /\ SendsOnly
    /\ StopFlagsUnchanged /\ DataUnchanged /\ ClientsUnchanged
    /\ IdsLogged
    /\ replay' = Recorded(replay, last', sent')
    /\ IdentificationUnchanged
    /\ returned' = NoValue

\* A method that asks the data client for something unless none is registered.
DataClientCalls(method, arg) ==
    IF is_data_client_registered THEN <<[method |-> method, arg |-> arg]>> ELSE <<>>

DataRequest(call, calls) ==
    /\ last' = call
    /\ sent' = <<>>
    /\ data_calls' = calls
    /\ UNCHANGED <<order_count, position_count, clock_now, is_data_client_registered>>
    /\ SendsOnly
    /\ StopFlagsUnchanged /\ DataUnchanged /\ ClientsUnchanged
    /\ IdsLogged
    /\ replay' = Recorded(replay, last', sent')
    /\ IdentificationUnchanged
    /\ returned' = NoValue

DataCall(method, arg) == [Call(method, "none", "none", "none") EXCEPT !.arg = arg]

subscribe_bars(bar_type) ==
    DataRequest(DataCall("subscribe_bars", bar_type),
                DataClientCalls("subscribe_bars", bar_type))

unsubscribe_bars(bar_type) ==
    DataRequest(DataCall("unsubscribe_bars", bar_type),
                DataClientCalls("unsubscribe_bars", bar_type))

subscribe_ticks(symbol) ==
    DataRequest(DataCall("subscribe_ticks", symbol),
                DataClientCalls("subscribe_ticks", symbol))

unsubscribe_ticks(symbol) ==
    DataRequest(DataCall("unsubscribe_ticks", symbol),
                DataClientCalls("unsubscribe_ticks", symbol))

\* historical_bars(bar_type, quantity): a negative quantity fails the precondition and
\* the call ends; quantity 0 asks for bar_capacity bars.
historical_bars(bar_type, quantity) ==
    IF quantity < 0
    THEN DataRequest(Aborted(DataCall("historical_bars", bar_type)), <<>>)
    ELSE DataRequest(DataCall("historical_bars", bar_type),
                     DataClientCalls("historical_bars",
                                     <<bar_type, IF quantity = 0 THEN bar_capacity
                                                 ELSE quantity>>))

\* ---------------------------------------------------------------- specifications
\* The atomic orders submitted: entry O1 with stop-loss O2 and, optionally, take-profit O3.
AtomicOrders ==
    {[entry |-> [id |-> "O1", obj |-> 1], stop_loss |-> [id |-> "O2", obj |-> 1],
      take_profit |-> tp] : tp \in {NoOrder, [id |-> "O3", obj |-> 1]}}

OrderEvents(types) == [type : types, order_id : OrderIds]

\* The ledger and its reducer: registrations, submissions and the order events that do
\* not ask the portfolio anything (no position is open).
NextLedger ==
    \/ register_execution_client
    \/ \E o \in Orders : register_entry_order(o)
    \/ \E o \in Orders : register_stop_loss_order(o)
    \/ \E o \in Orders : register_take_profit_order(o)
    \/ \E o \in Orders : submit_entry_order(o, "P1")
    \/ \E o \in Orders : submit_stop_loss_order(o, "P1")
    \/ \E o \in Orders : submit_take_profit_order(o, "P1")
    \/ \E a \in AtomicOrders : submit_atomic_order(a, "P1")
    \/ \E ev \in OrderEvents(TerminalEvents \cup {"OrderPartiallyFilled"}) :
            ExecDelivers(ev, "P1")
    \/ ClockDelivers

SpecLedger == InitDefault /\ [][NextLedger]_vars

\* Rejections with a position in the portfolio: the stop-loss flatten.
NextReject ==
    \/ register_execution_client
    \/ \E o \in Orders : register_stop_loss_order(o)
    \/ \E a \in AtomicOrders : submit_atomic_order(a, "P1")
    \/ \E ev \in OrderEvents({"OrderRejected"}) : ExecDelivers(ev, "P1")
    \/ \E mp \in MarketPositions : PortfolioUpdate("P1", mp)

SpecReject == Init /\ [][NextReject]_vars

\* The modify buffer: modify_order calls and the execution client's answers.
ModifiedOrders == {o \in Orders : o.id \in {"O1", "O2"}}

NextModify ==
    \/ register_execution_client
    \/ \E o \in ModifiedOrders, p \in Prices : modify_order(o, p)
    \/ \E o \in OrderIds, t \in AckEvents : ExecAnswersModify(o, t)

SpecModify == InitDefault /\ [][NextModify]_vars

\* The execution client answers a ModifyOrder command it holds of the order.
Acknowledges(order_id) == \E t \in AckEvents : ExecAnswersModify(order_id, t)

\* The calls for one order with an execution client that leaves no command unanswered for ever.
NextModifyLive ==
    \/ register_execution_client
    \/ ~is_running /\ start
    \/ \E p \in Prices : modify_order([id |-> "O1", obj |-> 1], p)
    \/ Acknowledges("O1")

SpecModifyLive ==
    /\ InitDefault
    /\ [][NextModifyLive]_vars
    /\ WF_vars(Acknowledges("O1"))

\* The bar cache: two bar types, filled past the capacity, emptied by reset.
NextBars ==
    \/ \E bt \in BarTypes, b \in Bars : handle_bar(bt, b)
    \/ start
    \/ \E p \in Orderings(positions_active) : stop("ends", p)
    \/ reset

SpecBars == InitDefault /\ [][NextBars]_vars

\* The indicator registry: I1 and I2 under BT1, I1 under BT2 as well.
IndicatorBindings == {<<"BT1", "I1">>, <<"BT1", "I2">>, <<"BT2", "I1">>}

NextIndicators ==
    \/ \E r \in IndicatorBindings : register_indicator(r[1], r[2])
    \/ \E bt \in BarTypes : handle_bar(bt, "b1")
    \/ start
    \/ reset

SpecIndicators == InitDefault /\ [][NextIndicators]_vars

\* The handlers and their hooks, the strategy started and stopped. The strategy
\* registers its indicator before the first bar arrives.
HookTicks == {t \in Ticks : t.symbol = "S1"}
RegistersEarly ==
    /\ indicators = EmptyDict
    /\ bar_hist["BT1"] = <<>>
    /\ register_indicator("BT1", "I1")

NextHooks ==
    \/ register_execution_client
    \/ start
    \/ \E d \in {"ends", "flat", "not_flat"} : stop(d, <<>>)
    \/ \E t \in HookTicks : handle_tick(t)
    \/ RegistersEarly
    \/ \E b \in Bars : handle_bar("BT1", b)
    \/ \E a \in AtomicOrders : submit_atomic_order(a, "P1")
    \/ \E ev \in OrderEvents({"OrderFilled", "OrderCancelled"}) : ExecDelivers(ev, "P1")

SpecHooks == InitDefault /\ [][NextHooks]_vars

\* What the hooks find: the handlers of a strategy that is started and never stopped.
NextViews ==
    \/ register_execution_client
    \/ start
    \/ \E t \in HookTicks : handle_tick(t)
    \/ RegistersEarly
    \/ \E b \in Bars : handle_bar("BT1", b)
    \/ \E a \in AtomicOrders : submit_atomic_order(a, "P1")
    \/ ExecDelivers([type |-> "OrderCancelled", order_id |-> "O1"], "P1")
    \/ modify_order([id |-> "O2", obj |-> 1], 1)
    \/ \E t \in AckEvents : ExecAnswersModify("O2", t)

SpecViews == InitDefault /\ [][NextViews]_vars

\* The lifecycle: every call that invokes a user hook, the hook raising or not.
\* One indicator is registered, once.
NextLifecycle ==
    \/ start
    \/ \E d \in {"ends", "flat", "not_flat"} : stop(d, <<>>)
    \/ reset
    \/ dispose
    \/ generate_order_id
    \/ generate_position_id
    \/ handle_tick([symbol |-> "S1", bid |-> "t1"])
    \/ "BT1" \notin DOMAIN indicators /\ register_indicator("BT1", "I1")
    \/ handle_bar("BT1", "b1")
    \/ ClockDelivers

\* flatten_on_stop either way: stop asks the portfolio only when it is set.
InitLifecycle ==
    /\ Init
    /\ flatten_on_sl_reject = TRUE
    /\ cancel_all_orders_on_stop = TRUE

SpecLifecycle == InitLifecycle /\ [][NextLifecycle]_vars

\* Stopping a strategy that holds positions and working orders.
NextStop ==
    \/ register_execution_client
    \/ start
    \/ \E o \in {[id |-> "O1", obj |-> 1]} : submit_entry_order(o, "P1")
    \/ \E o \in {"O1", "O2"} : ExecWorks(o)
    \/ \E p \in PositionIds, mp \in MarketPositions : PortfolioUpdate(p, mp)
    \/ \E l \in TimerLabels : set_timer(l)
    \/ \E d \in {"ends", "flat", "not_flat"}, p \in Orderings(positions_active) : stop(d, p)

SpecStop == Init /\ [][NextStop]_vars

\* One run of the generators: ids taken while the clock moves, forwards or backwards.
NextGenerator ==
    \/ generate_order_id
    \/ generate_position_id
    \/ \E t \in Times : set_time(t)
    \/ \E l \in TimerLabels : set_timer(l)

SpecGenerator == InitDefault /\ [][NextGenerator]_vars

\* The strategy's identifiers across resets and clock changes, the clocks showing the
\* epoch or an afternoon in 2019.
ClockTimes == {t \in Times : t.second = 0}

NextIds ==
    \/ generate_order_id
    \/ generate_position_id
    \/ \E t \in ClockTimes : set_time(t)
    \/ \E t \in ClockTimes : change_clock(t)
    \/ reset

SpecIds == InitDefault /\ [][NextIds]_vars

\* A run, stop, reset and the run again: the inputs of a run are modify_order calls,
\* the execution client's answers to them, and the submission of an entry order.
MaxScript == 2

ReplayInputs ==
    {[op |-> "modify_order", id |-> "O1", type |-> "none", price |-> p] : p \in Prices}
    \cup {[op |-> "handle_event", id |-> "O1", type |-> t, price |-> 0] : t \in AckEvents}
    \cup {[op |-> "submit_entry_order", id |-> "O1", type |-> "none", price |-> 0]}

Scripts == UNION {[1..n -> ReplayInputs] : n \in 1..MaxScript}

\* The test fixes the inputs of the run it is about to record.
BeginRecording(script) ==
    /\ replay = NoReplay
    /\ last.op = "init"
    /\ replay' = [NoReplay EXCEPT !.script = script, !.run = 1, !.pos = 1]
    /\ UNCHANGED <<is_exec_client_registered, is_running, flatten_on_sl_reject,
                   entry_orders, stop_loss_orders, take_profit_orders, atomic_order_ids,
                   modify_order_buffer, order_count, positions, order_price, inflight,
                   sent, hooks, atomic_hist, flatten_on_stop,
                   cancel_all_orders_on_stop, ticks, bars, indicators,
                   indicator_updaters, updates, position_count, working_orders, timers,
                   steps, hook_call, bar_hist, bound_at, is_data_client_registered,
                   data_calls, clock_now, generated, returned, identification,
                   generator_id_tag>>
    /\ last' = Call("record", "none", "none", "none")

\* The strategy is given the run's next input.
Replayed(input) ==
    \/ /\ input.op = "modify_order"
       /\ modify_order([id |-> input.id, obj |-> 1], input.price)
    \/ /\ input.op = "handle_event"
       /\ ExecAnswersModify(input.id, input.type)
    \/ /\ input.op = "submit_entry_order"
       /\ submit_entry_order([id |-> input.id, obj |-> 1], "P1")

RunOver == replay.pos > Len(replay.script)

NextReplay ==
    \/ \E script \in Scripts : BeginRecording(script)
    \/ replay.run = 1 /\ ~is_exec_client_registered /\ register_execution_client
    \/ replay.run \in {1, 2} /\ replay.pos = 1 /\ is_exec_client_registered
            /\ ~is_running /\ last.op # "stop" /\ start
    \/ replay.run \in {1, 2} /\ is_running /\ ~RunOver /\ Replayed(replay.script[replay.pos])
    \/ replay.run = 1 /\ is_running /\ RunOver /\ stop("ends", <<>>)
    \/ replay.run = 1 /\ last.op = "stop" /\ reset

SpecReplay == InitDefault /\ [][NextReplay]_vars

\* A method that reads the strategy and returns a value or raises.
Reads(call, result) ==
    /\ last' = call
    /\ returned' = result
    /\ sent' = <<>> /\ data_calls' = <<>>
    /\ UNCHANGED <<order_count, position_count, clock_now, is_data_client_registered>>
    /\ SendsOnly
    /\ StopFlagsUnchanged /\ DataUnchanged /\ ClientsUnchanged
    /\ IdsLogged
    /\ replay' = Recorded(replay, last', sent')
    /\ IdentificationUnchanged

\* bars(bar_type)
get_bars(bar_type) ==
    Reads(Call("bars", bar_type, "none", "none"),
          IF bar_type \in DOMAIN bars THEN Value(bars_of(bar_type))
          ELSE Raised("ValueError"))

\* bar(bar_type, index)
get_bar(bar_type, index) ==
    Reads([Call("bar", bar_type, "none", "none") EXCEPT !.arg = index],
          IF bar_type \notin DOMAIN bars \/ index < 0 THEN Raised("ValueError")
          ELSE IF index >= Len(bars[bar_type]) THEN Raised("IndexError")
          ELSE Value(bar(bar_type, index)))

\* last_bar(bar_type)
get_last_bar(bar_type) ==
    Reads(Call("last_bar", bar_type, "none", "none"),
          IF bar_type \in DOMAIN bars THEN Value(last_bar(bar_type))
          ELSE Raised("ValueError"))

\* last_tick(symbol)
get_last_tick(symbol) ==
    Reads(Call("last_tick", symbol, "none", "none"),
          IF symbol \in DOMAIN ticks THEN Value(last_tick(symbol))
          ELSE Raised("ValueError"))

\* Arrivals from the three clients: ticks and bars from the data client, TimeEvents from
\* the clock's handler, and the execution client's answers to ModifyOrder commands, some
\* of them sent by handle_event itself when it drains the buffer.  Each client delivers
\* on the strategy's thread, one call after another.
NextArrivals ==
    \/ register_execution_client
    \/ start
    \/ stop("ends", <<>>)
    \/ handle_tick([symbol |-> "S1", bid |-> "t1"])
    \/ handle_bar("BT1", "b1")
    \/ ClockDelivers
    \/ \E o \in {m \in ModifiedOrders : m.id = "O1"}, p \in Prices : modify_order(o, p)
    \/ \E t \in AckEvents : ExecAnswersModify("O1", t)

SpecArrivals == InitDefault /\ [][NextArrivals]_vars

\* The updates after which an indicator reports initialized.
period == 2

\* Indicator.initialized
initialized(indicator) == updates[indicator] >= period

AllInitialized(indicator_list) ==
    \A k \in 1..Len(indicator_list) : initialized(indicator_list[k])

\* indicators_initialized(bar_type): declared bint, so the failed precondition is
\* reported and the call returns False.
indicators_initialized(bar_type) ==
    Reads(Call("indicators_initialized", bar_type, "none", "none"),
          IF bar_type \in DOMAIN indicators
          THEN Value(AllInitialized(indicators[bar_type]))
          ELSE Value(FALSE))

\* indicators_initialized_all()
indicators_initialized_all ==
    Reads(Call("indicators_initialized_all", "none", "none", "none"),
          Value(\A bt \in DOMAIN indicators : AllInitialized(indicators[bt])))

\* Indicators registered, bars delivered, the strategy reset, the indicators asked.
NextInitialized ==
    \/ \E r \in IndicatorBindings : register_indicator(r[1], r[2])
    \/ \E bt \in BarTypes : handle_bar(bt, "b1")
    \/ reset
    \/ \E bt \in BarTypes : indicators_initialized(bt)
    \/ indicators_initialized_all

SpecInitialized == InitDefault /\ [][NextInitialized]_vars

\* Positions open and close in the portfolio; the strategy flattens one or all.  The
\* portfolio hands flatten_all_positions the active positions, or every entered one.
positions_entered == {p \in PositionIds : is_entered(p)}

NextFlatten ==
    \/ register_execution_client
    \/ \E p \in PositionIds, mp \in MarketPositions : PortfolioUpdate(p, mp)
    \/ \E p \in PositionIds, d \in {"ends", "flat"} : flatten_position(p, d)
    \/ \E p \in Orderings(positions_active) \cup Orderings(positions_entered) :
            flatten_all_positions(p)

SpecFlatten == InitDefault /\ [][NextFlatten]_vars

\* Every kind of event reaches handle_event: terminal events and partial fills for
\* registered and unregistered orders, answers to ModifyOrder commands, TimeEvents.
NextFrame ==
    \/ register_execution_client
    \/ \E a \in AtomicOrders : submit_atomic_order(a, "P1")
    \/ \E p \in Prices : modify_order([id |-> "O1", obj |-> 1], p)
    \/ \E t \in AckEvents : ExecAnswersModify("O1", t)
    \/ \E ev \in OrderEvents(TerminalEvents \cup {"OrderPartiallyFilled"}) :
            ExecDelivers(ev, "P1")
    \/ ClockDelivers

SpecFrame == InitDefault /\ [][NextFrame]_vars

\* A strategy with orders registered, market data cached and ids generated is handed
\* another clock.
NextClock ==
    \/ start
    \/ register_entry_order([id |-> "O1", obj |-> 1])
    \/ handle_tick([symbol |-> "S1", bid |-> "t1"])
    \/ bars = EmptyDict /\ handle_bar("BT1", "b1")
    \/ generate_order_id
    \/ generate_position_id
    \/ \E t \in ClockTimes : change_clock(t)
    \/ ClockDelivers

SpecClock == InitDefault /\ [][NextClock]_vars

\* Attribute access on an object held in a dictionary: the attribute's value, or an
\* AttributeError when the object has none of that name.
GetAttr(object, name) ==
    IF name \in DOMAIN object THEN Value(object[name]) ELSE Raised("AttributeError")

\* entry_order(order_id): the precondition, then self._entry_orders[order_id].order.
entry_order(order_id) ==
    Reads(Call("entry_order", order_id, "none", "none"),
          IF order_id \in DOMAIN entry_orders
          THEN GetAttr(entry_orders[order_id], "order")
          ELSE Raised("ValueError"))

\* stop_loss_order(order_id)
stop_loss_order(order_id) ==
    Reads(Call("stop_loss_order", order_id, "none", "none"),
          IF order_id \in DOMAIN stop_loss_orders
          THEN GetAttr(stop_loss_orders[order_id], "order")
          ELSE Raised("ValueError"))

\* take_profit_order(order_id)
take_profit_order(order_id) ==
    Reads(Call("take_profit_order", order_id, "none", "none"),
          IF order_id \in DOMAIN take_profit_orders
          THEN GetAttr(take_profit_orders[order_id], "order")
          ELSE Raised("ValueError"))

\* Orders registered, a second Order object under an id already used included, and
\* read back.
RegisteredOrders == [id : {"O1", "O2"}, obj : {1, 2}]

NextOrders ==
    \/ \E o \in RegisteredOrders : register_entry_order(o)
    \/ \E o \in RegisteredOrders : register_stop_loss_order(o)
    \/ \E o \in RegisteredOrders : register_take_profit_order(o)
    \/ \E id \in {"O1", "O2"} : entry_order(id)
    \/ \E id \in {"O1", "O2"} : stop_loss_order(id)
    \/ \E id \in {"O1", "O2"} : take_profit_order(id)

SpecOrders == InitDefault /\ [][NextOrders]_vars

\* register_trader_id(trader_id, order_id_tag): two fields are assigned; the order
\* factory and the position id generator are the ones built before.
register_trader_id(trader_id, order_id_tag) ==
    /\ identification' = [trader_id |-> trader_id, id_tag_trader |-> order_id_tag]
    /\ UNCHANGED generator_id_tag
    /\ last' = [Call("register_trader_id", trader_id, "none", "none")
                    EXCEPT !.arg = order_id_tag]
    /\ sent' = <<>> /\ hooks' = <<>>
    /\ NoHookInvoked
    /\ UNCHANGED <<entry_orders, stop_loss_orders, take_profit_orders, atomic_order_ids,
                   modify_order_buffer, order_count, position_count, is_running>>
    /\ EnvUnchanged /\ ConfigUnchanged /\ HistoryUnchanged
    /\ StopFlagsUnchanged /\ DataUnchanged /\ ClientsUnchanged
    /\ IdsLogged
    /\ replay' = Recorded(replay, last', sent')
    /\ returned' = NoValue
    /\ data_calls' = <<>>
    /\ UNCHANGED <<clock_now, is_data_client_registered>>

\* The traders a strategy is registered with, and their order id tags.
Traders == {[trader_id |-> "Trader-000", tag |-> <<"0", "0", "0">>],
            [trader_id |-> "Trader-007", tag |-> <<"0", "0", "7">>]}

\* A strategy is registered with a trader and generates ids, before and after its clock
\* is changed.
NextTrader ==
    \/ \E tr \in Traders : register_trader_id(tr.trader_id, tr.tag)
    \/ generate_order_id
    \/ generate_position_id
    \/ \E t \in ClockTimes : change_clock(t)

SpecTrader == InitDefault /\ [][NextTrader]_vars

\* A strategy that tracks an atomic order and a buffered modify command is stopped and
\* reset, and receives a tick and a bar.
NextResidual ==
    \/ register_execution_client
    \/ \E a \in AtomicOrders : submit_atomic_order(a, "P1")
    \/ \E p \in Prices : modify_order([id |-> "O1", obj |-> 1], p)
    \/ start
    \/ stop("ends", <<>>)
    \/ reset
    \/ handle_tick([symbol |-> "S1", bid |-> "t1"])
    \/ bars = EmptyDict /\ handle_bar("BT1", "b1")

SpecResidual == InitDefault /\ [][NextResidual]_vars

\* A strategy with both clients registered is disposed of and used afterwards.
NextDispose ==
    \/ register_execution_client
    \/ register_data_client
    \/ start
    \/ dispose
    \/ \E o \in Orders : submit_order(o, "P1")
    \/ \E o \in Orders : cancel_order(o, "R")
    \/ \E sym \in Symbols : subscribe_ticks(sym)
    \/ \E t \in Ticks : handle_tick(t)

SpecDispose == InitDefault /\ [][NextDispose]_vars

\* The cache read back: ticks and bars handled, the cache reset, the accessors called
\* with known and unknown keys and with indices around the deque's ends.
Indices == -1..bar_capacity

NextAccessors ==
    \/ \E t \in Ticks : handle_tick(t)
    \/ \E bt \in BarTypes, b \in Bars : handle_bar(bt, b)
    \/ reset
    \/ \E bt \in BarTypes : get_bars(bt)
    \/ \E bt \in BarTypes, i \in Indices : get_bar(bt, i)
    \/ \E bt \in BarTypes : get_last_bar(bt)
    \/ \E sym \in Symbols : get_last_tick(sym)

SpecAccessors == InitDefault /\ [][NextAccessors]_vars

\* The commands and the data requests of a strategy, before and after it is given its
\* clients.
Quantities == {-1, 0, 1}

NextUnregistered ==
    \/ register_execution_client
    \/ register_data_client
    \/ \E mp \in MarketPositions : PortfolioUpdate("P1", mp)
    \/ ExecWorks("O1")
    \/ \E o \in ModifiedOrders : submit_order(o, "P1")
    \/ submit_entry_order([id |-> "O1", obj |-> 1], "P1")
    \/ submit_stop_loss_order([id |-> "O2", obj |-> 1], "P1")
    \/ submit_take_profit_order([id |-> "O3", obj |-> 1], "P1")
    \/ \E a \in AtomicOrders : submit_atomic_order(a, "P1")
    \/ modify_order([id |-> "O1", obj |-> 1], 1)
    \/ cancel_order([id |-> "O1", obj |-> 1], "R")
    \/ cancel_all_orders("R")
    \/ \E d \in {"ends", "flat"} : flatten_position("P1", d)
    \/ \E p \in Orderings(positions_active) : flatten_all_positions(p)
    \/ \E bt \in BarTypes : subscribe_bars(bt)
    \/ \E bt \in BarTypes : unsubscribe_bars(bt)
    \/ \E sym \in Symbols : subscribe_ticks(sym)
    \/ \E sym \in Symbols : unsubscribe_ticks(sym)
    \/ \E bt \in BarTypes, q \in Quantities : historical_bars(bt, q)

SpecUnregistered == InitDefault /\ [][NextUnregistered]_vars

Next ==
    \/ NextLedger \/ NextReject \/ NextModify
    \/ NextBars \/ NextIndicators \/ NextHooks \/ NextViews \/ NextLifecycle
    \/ NextStop \/ NextGenerator \/ NextIds \/ NextReplay \/ NextUnregistered
    \/ NextAccessors \/ NextArrivals \/ NextDispose \/ NextInitialized \/ NextFlatten
    \/ NextFrame \/ NextClock \/ NextOrders \/ NextModifyLive \/ NextResidual \/ NextTrader

Spec == Init /\ [][Next]_vars

\* ---------------------------------------------------------------- properties
IsHandled(types) == last.op = "handle_event" /\ last.type \in types /\ last.done

RegistersHolding(L, id) ==
    {r \in {"entry", "stop_loss", "take_profit"} :
        \/ r = "entry" /\ id \in DOMAIN L.entry_orders
        \/ r = "stop_loss" /\ id \in DOMAIN L.stop_loss_orders
        \/ r = "take_profit" /\ id \in DOMAIN L.take_profit_orders}

\* C1: between calls, every OrderId is a key of at most one of entry_orders,
\* stop_loss_orders and take_profit_orders.
C1_AtMostOneRegister ==
    \A id \in OrderIds : Cardinality(RegistersHolding(Ledger, id)) <= 1

\* C2: after handle_event has processed a terminal event for X, X is a key of none of
\* the three registers.
C2_TerminalEventRemovesOrder ==
    IsHandled(TerminalEvents) => ~InRegisters(Ledger, last.id)

\* C3: handle_event(OrderRejected / OrderCancelled / OrderExpired) for a parent key P of
\* atomic_order_ids leaves every child recorded under P out of all three registers and
\* drops the entry of P.
C3_ParentCleanupRemovesChildren ==
    [][(IsHandled({"OrderRejected", "OrderCancelled", "OrderExpired"}))'
        /\ last'.id \in DOMAIN atomic_order_ids
        => /\ \A i \in 1..Len(atomic_order_ids[last'.id]) :
                 ~InRegisters(Ledger', atomic_order_ids[last'.id][i])
           /\ last'.id \notin DOMAIN atomic_order_ids']_vars

\* C6 as stated: an atomically submitted entry E has a map entry iff none of its children
\* has had a terminal event.
C6_EntryIffNoChildResolved ==
    \A e \in DOMAIN atomic_hist :
        e \in DOMAIN atomic_order_ids <=> ~atomic_hist[e].child_terminal

\* C6 as amended: an atomically submitted entry E has a map entry iff E itself has had no
\* terminal event (Filled, Cancelled, Rejected, Expired) since its last submission.
C6_EntryIffParentUnresolved ==
    /\ DOMAIN atomic_order_ids \subseteq DOMAIN atomic_hist
    /\ \A e \in DOMAIN atomic_hist :
        e \in DOMAIN atomic_order_ids <=> ~atomic_hist[e].parent_terminal

\* A child has been resolved and the parent not: the entry is still there; and a parent
\* has been filled with both children untouched: the entry is gone.
C6_Witness ==
    /\ IsHandled({"OrderFilled"})
    /\ last.id \in DOMAIN atomic_hist
    /\ atomic_hist[last.id].parent_terminal
    /\ ~atomic_hist[last.id].child_terminal
    /\ last.id \notin DOMAIN atomic_order_ids

\* The scenario's ledger: O1, O2, O3 as submit_atomic_order registers them and nowhere else.
AtomicScenario ==
    /\ "O1" \in DOMAIN atomic_order_ids
    /\ atomic_order_ids["O1"] = <<"O2", "O3">>
    /\ RegistersHolding(Ledger, "O1") = {"entry"}
    /\ RegistersHolding(Ledger, "O2") = {"stop_loss"}
    /\ RegistersHolding(Ledger, "O3") = {"take_profit"}

IsExitSubmit(command, position_id) ==
    /\ command.command = "SubmitOrder"
    /\ command.position_id = position_id
    /\ command.order.purpose = "EXIT"
    /\ command.order.type = "MARKET"

ScenarioCleaned ==
    /\ \A id \in {"O1", "O2", "O3"} : ~InRegisters(Ledger, id)
    /\ atomic_order_ids = EmptyDict

\* C4 as stated: in the scenario, OrderRejected{O1} with flatten_on_sl_reject and a
\* position for O1 sends a flatten market order for P1, besides the cleanup.
C4_EntryRejectFlattens ==
    [][AtomicScenario /\ flatten_on_sl_reject /\ is_entered("P1")
        /\ (IsHandled({"OrderRejected"}))' /\ last'.id = "O1"
        => /\ \E i \in 1..Len(sent') : IsExitSubmit(sent'[i], "P1")
           /\ ScenarioCleaned']_vars

\* C4 as amended: in the scenario, OrderRejected{O1} removes O1, O2, O3 and empties
\* atomic_order_ids, and sends no command: O1 is an entry, not a registered stop-loss.
C4_EntryRejectOnlyCleans ==
    [][AtomicScenario /\ flatten_on_sl_reject /\ is_entered("P1")
        /\ (IsHandled({"OrderRejected"}))' /\ last'.id = "O1"
        => sent' = <<>> /\ ScenarioCleaned']_vars

C4_Witness ==
    /\ IsHandled({"OrderRejected"}) /\ last.id = "O1"
    /\ flatten_on_sl_reject
    /\ positions["P1"] = "LONG"
    /\ "O1" \in DOMAIN atomic_hist
    /\ atomic_hist["O1"].children = <<"O2", "O3">>
    /\ ScenarioCleaned
    /\ sent = <<>>

\* C5: on OrderRejected{X}: with X a registered stop-loss, the flag set and the position
\* entered, exactly one market EXIT SubmitOrder is sent for the position; with the flag
\* clear or X no registered stop-loss, nothing is sent; in every case X and X's atomic
\* children are out of the registers afterwards.
C5_RejectedReducer ==
    [][(IsHandled({"OrderRejected"}))'
        => LET x == last'.id
               p == last'.pos
           IN /\ (x \in DOMAIN stop_loss_orders /\ flatten_on_sl_reject /\ is_entered(p))
                    => Len(sent') = 1 /\ IsExitSubmit(sent'[1], p)
              /\ (~flatten_on_sl_reject \/ x \notin DOMAIN stop_loss_orders)
                    => sent' = <<>>
              /\ ~InRegisters(Ledger', x)
              /\ x \in DOMAIN atomic_order_ids
                    => \A i \in 1..Len(atomic_order_ids[x]) :
                          ~InRegisters(Ledger', atomic_order_ids[x][i])]_vars

\* C7: modify_order(order, p) with an execution client registered: with an entry for
\* order.id in the buffer, the entry is replaced by one carrying p and no command is
\* sent; with none, the command is put in the buffer and sent.
C7_ModifyCoalesces ==
    [][last'.op = "modify_order" /\ is_exec_client_registered
        => LET x == last'.id
               p == last'.price
           IN /\ modify_order_buffer' = Put(modify_order_buffer, x, p)
              /\ IF x \in DOMAIN modify_order_buffer
                 THEN sent' = <<>> /\ inflight' = inflight
                 ELSE /\ sent' = <<ModifyOrderCommand(x, p)>>
                      /\ inflight' = [inflight EXCEPT ![x] = Append(@, p)]]_vars

\* A second modify_order has replaced the buffered price while the first command waits.
C7_Witness ==
    /\ last.op = "modify_order"
    /\ is_exec_client_registered
    /\ sent = <<>>
    /\ inflight[last.id] # <<>>
    /\ modify_order_buffer[last.id] = last.price
    /\ last.price # inflight[last.id][Len(inflight[last.id])]

\* C8: at most one ModifyOrder command of an order is sent and not yet answered.
C8_AtMostOneInFlight ==
    \A o \in OrderIds : Len(inflight[o]) <= 1

\* C9: on OrderModified{X} / OrderCancelReject{X} with a buffer entry for X, the buffered
\* command is sent again iff its price differs from the order's current price, and the
\* entry is removed either way; with no entry nothing is sent and the buffer is unchanged.
C9_DrainResendsIffPriceDiffers ==
    [][(IsHandled(AckEvents))'
        => LET x == last'.id
           IN IF x \in DOMAIN modify_order_buffer
              THEN /\ modify_order_buffer' = DropKey(modify_order_buffer, x)
                   /\ IF modify_order_buffer[x] # order_price'[x]
                      THEN sent' = <<ModifyOrderCommand(x, modify_order_buffer[x])>>
                      ELSE sent' = <<>>
              ELSE /\ sent' = <<>>
                   /\ modify_order_buffer' = modify_order_buffer]_vars

\* The race of the coalescing scenario: the first command is acknowledged and the
\* buffered, newer price goes out.
C9_Witness ==
    /\ IsHandled({"OrderModified"})
    /\ Len(sent) = 1
    /\ sent[1].command = "ModifyOrder"
    /\ sent[1].order_id = last.id
    /\ sent[1].modified_price # order_price[last.id]
    /\ last.id \notin DOMAIN modify_order_buffer

\* C10: the buffer has an entry for X iff a ModifyOrder command for X has been sent and
\* its ack has not been handled yet.
C10_BufferedIffInFlight ==
    \A o \in OrderIds : o \in DOMAIN modify_order_buffer <=> inflight[o] # <<>>

\* ---------------------------------------------------------------- market data properties
Min(a, b) == IF a < b THEN a ELSE b

\* The k most recent bars of a history, newest first.
NewestFirst(hist, k) == [i \in 1..k |-> hist[Len(hist) - i + 1]]

\* C11: for every bar type with bars delivered, the cache holds at most bar_capacity
\* bars, bars(bt) is the most recent min(N, bar_capacity) bars delivered, newest first,
\* and last_bar(bt) = bar(bt, 0) = the last bar delivered.
C11_BarCacheNewestFirst ==
    \A bt \in BarTypes :
        bar_hist[bt] # <<>> =>
            /\ bt \in DOMAIN bars
            /\ Len(bars_of(bt)) <= bar_capacity
            /\ bars_of(bt) = NewestFirst(bar_hist[bt], Min(Len(bar_hist[bt]), bar_capacity))
            /\ last_bar(bt) = bar(bt, 0)
            /\ last_bar(bt) = bar_hist[bt][Len(bar_hist[bt])]

\* More bars than the capacity have been delivered: the oldest is gone, the newest leads.
C11_Witness ==
    /\ last.op = "handle_bar"
    /\ Len(bar_hist[last.id]) > bar_capacity
    /\ Len(bars_of(last.id)) = bar_capacity
    /\ bar_hist[last.id][1] # bar_hist[last.id][2]
    /\ last_bar(last.id) = last.arg
    /\ bar(last.id, 1) # last.arg

\* The registrations of an indicator: the bar types and the places in their updater lists.
BindingsOf(indicator) ==
    {r \in BarTypes \X (1..MaxBindings) :
        /\ r[1] \in DOMAIN indicator_updaters
        /\ r[2] <= Len(indicator_updaters[r[1]])
        /\ indicator_updaters[r[1]][r[2]] = indicator}

\* The bars delivered for the bar type of a registration since the later of the
\* registration and the last reset, summed over registrations.
RECURSIVE BarsDue(_)
BarsDue(registrations) ==
    IF registrations = {} THEN 0
    ELSE LET r == CHOOSE x \in registrations : TRUE
         IN Len(bar_hist[r[1]]) - bound_at[r[1]][r[2]] + BarsDue(registrations \ {r})

\* C12 as stated: each indicator bound to a bar type has been updated as many times as
\* bars have been delivered for the bar type since the last reset.
C12_UpdatesEqualDelivered ==
    \A bt \in DOMAIN indicators :
        \A k \in 1..Len(indicators[bt]) :
            updates[indicators[bt][k]] = Len(bar_hist[bt])

\* C12 as amended: each indicator has been updated once per registration and bar
\* delivered for the registration's bar type since the later of the registration and
\* the last reset.
C12_UpdatesEqualDue ==
    \A i \in Indicators : updates[i] = BarsDue(BindingsOf(i))

\* An indicator registered after a bar has been fed the later bar only.
C12_Witness ==
    /\ last.op = "handle_bar"
    /\ last.id \in DOMAIN indicators
    /\ \E k \in 1..Len(indicators[last.id]) :
            /\ bound_at[last.id][k] > 0
            /\ updates[indicators[last.id][k]] > 0
            /\ updates[indicators[last.id][k]] < Len(bar_hist[last.id])

\* ---------------------------------------------------------------- hook properties
IsHandleCall(c) == c.op \in {"handle_tick", "handle_bar", "handle_event"} /\ c.done

HookOf(op) ==
    CASE op = "handle_tick" -> "on_tick"
      [] op = "handle_bar" -> "on_bar"
      [] op = "handle_event" -> "on_event"

\* How many updaters of the bar type feed the indicator.
UpdatersOf(bar_type, indicator) ==
    IF bar_type \in DOMAIN indicator_updaters
    THEN Cardinality({k \in 1..Len(indicator_updaters[bar_type]) :
                        indicator_updaters[bar_type][k] = indicator})
    ELSE 0

\* What a hook called now would find.
ObservedNow ==
    Observed(is_running, ticks, bars, updates, Ledger, modify_order_buffer, Counters)

\* C13: handle_tick / handle_bar / handle_event invoke on_tick / on_bar / on_event
\* exactly while is_running; running or not, the tick is stored, the bar is cached and
\* fed to the bar type's updaters, the ledger is reduced.
C13_HooksOnlyWhileRunning ==
    [][IsHandleCall(last')
        => /\ hooks' = IF is_running THEN <<HookOf(last'.op)>> ELSE <<>>
           /\ hook_call'.hook = IF is_running THEN HookOf(last'.op) ELSE "none"
           /\ last'.op = "handle_tick" => ticks'[last'.id] = last'.arg
           /\ last'.op = "handle_bar"
                => /\ bars'[last'.id][1] = last'.arg
                   /\ \A i \in Indicators :
                         updates'[i] = updates[i] + UpdatersOf(last'.id, i)
           /\ last'.op = "handle_event"
                => Ledger' = Reduced(Ledger, [type |-> last'.type, order_id |-> last'.id])
       ]_vars

\* A bar handled by a strategy that is not running: cached, fed to the indicator, no hook.
C13_Witness ==
    /\ last.op = "handle_bar"
    /\ ~is_running
    /\ hooks = <<>>
    /\ hook_call = NoHookCall
    /\ last_bar(last.id) = last.arg
    /\ last.id \in DOMAIN indicators
    /\ updates[indicators[last.id][1]] = Len(bar_hist[last.id])

\* C14: the hook of a handle call finds the call's own updates: on_tick the new tick,
\* on_bar the new bar at index 0 and the updaters fed, on_event the ledger and the modify
\* buffer reduced; nothing is changed after the hook.
C14_HookSeesUpdates ==
    [][IsHandleCall(last') /\ hooks' # <<>>
        => LET seen == hook_call'.seen
           IN /\ seen = ObservedNow'
              /\ last'.op = "handle_tick" => seen.ticks[last'.id] = last'.arg
              /\ last'.op = "handle_bar"
                   => /\ seen.bars[last'.id][1] = last'.arg
                      /\ \A i \in Indicators :
                            seen.updates[i] = updates[i] + UpdatersOf(last'.id, i)
              /\ last'.op = "handle_event"
                   => /\ seen.ledger =
                            Reduced(Ledger, [type |-> last'.type, order_id |-> last'.id])
                      /\ last'.type \in AckEvents
                            => last'.id \notin DOMAIN seen.modify_order_buffer
       ]_vars

\* on_bar has found a second bar in front of the first and the indicator fed with both.
C14_Witness ==
    /\ last.op = "handle_bar"
    /\ hook_call.hook = "on_bar"
    /\ Len(hook_call.seen.bars[last.id]) = 2
    /\ hook_call.seen.bars[last.id][1] = last.arg
    /\ hook_call.seen.bars[last.id][2] # last.arg
    /\ last.id \in DOMAIN indicators
    /\ hook_call.seen.updates[indicators[last.id][1]] = 2

\* C15 as stated: an exception raised by a user hook does not leave the engine call, the
\* call's updates are kept, and is_running is what it was before the call.
C15_HookFailureKeepsLifecycle ==
    [][hook_call'.raised
        => /\ ~hook_call'.escaped
           /\ hook_call'.seen = ObservedNow'
           /\ is_running' = is_running]_vars

\* C15 as amended: an exception raised by a user hook does not leave the engine call, the
\* call's updates are kept, and is_running is what it was when the hook was invoked
\* (true after start, false after stop, as before the call otherwise).
C15_HookFailureIsolated ==
    [][hook_call'.raised
        => /\ ~hook_call'.escaped
           /\ hook_call'.seen = ObservedNow'
           /\ is_running' = hook_call'.seen.is_running
           /\ is_running' = CASE last'.op = "start" -> TRUE
                               [] last'.op = "stop" -> FALSE
                               [] OTHER -> is_running]_vars

\* on_start has raised: the strategy is running all the same.
C15_Witness ==
    /\ last.op = "start"
    /\ hook_call.hook = "on_start"
    /\ hook_call.raised
    /\ ~hook_call.escaped
    /\ is_running

\* ---------------------------------------------------------------- stop properties
StepNames(ss) == [i \in 1..Len(ss) |-> ss[i].do]

IsPrefix(a, b) == Len(a) <= Len(b) /\ a = SubSeq(b, 1, Len(a))

\* The steps of stop as the specification lists them, flattening or not.
StopSteps(flattening) ==
    <<"cancel_all_time_alerts", "cancel_all_timers">>
        \o (IF flattening THEN <<"flatten_all_positions">> ELSE <<>>)
        \o (IF cancel_all_orders_on_stop THEN <<"cancel_all_orders">> ELSE <<>>)
        \o <<"is_running = False", "residual warnings", "on_stop">>

\* A market EXIT order for the position: opposite side, the position's quantity.
IsFlattenOf(command, position_id) ==
    /\ IsExitSubmit(command, position_id)
    /\ command.order.quantity = PositionQuantity[position_id]
    /\ \/ positions[position_id] = "LONG" /\ command.order.side = "SELL"
       \/ positions[position_id] = "SHORT" /\ command.order.side = "BUY"

\* The commands are one EXIT per position of the set, then one CancelOrder per order.
ExitsThenCancels(commands, position_set, order_ids) ==
    LET n == Cardinality(position_set)
    IN /\ Len(commands) = n + Len(order_ids)
       /\ \A p \in position_set : \E i \in 1..n : IsFlattenOf(commands[i], p)
       /\ \A j \in 1..Len(order_ids) :
             /\ commands[n + j].command = "CancelOrder"
             /\ commands[n + j].order_id = order_ids[j]

\* C16: stop cancels the clock's alerts and timers, then (flatten_on_stop and not flat)
\* submits the EXIT orders, then (cancel_all_orders_on_stop) sends the CancelOrders, then
\* clears is_running, then warns of residuals, then calls on_stop, which finds is_running
\* false. Without a portfolio the steps taken are a prefix of that list.
C16_StopOrder ==
    [][last'.op = "stop"
        => /\ timers' = {}
           /\ \A i \in 1..Len(steps') :
                 steps'[i].is_running =
                    IF steps'[i].do \in {"is_running = False", "residual warnings", "on_stop"}
                    THEN FALSE ELSE is_running
           /\ IF is_exec_client_registered
              THEN /\ StepNames(steps') = StopSteps(flatten_on_stop /\ ~is_strategy_flat)
                   /\ ExitsThenCancels(sent',
                            IF flatten_on_stop THEN positions_active ELSE {},
                            IF cancel_all_orders_on_stop THEN working_orders ELSE <<>>)
                   /\ \A i \in 1..Len(steps') :
                         /\ steps'[i].do = "flatten_all_positions"
                               => steps'[i].nsent = Cardinality(positions_active)
                         /\ steps'[i].do = "cancel_all_orders"
                               => steps'[i].nsent = Len(sent')
                   /\ hook_call'.hook = "on_stop"
                   /\ ~hook_call'.seen.is_running
                   /\ ~is_running'
              ELSE /\ sent' = <<>>
                   /\ \E flattening \in BOOLEAN :
                         IsPrefix(StepNames(steps'), StopSteps(flatten_on_stop /\ flattening))
       ]_vars

\* A running strategy with a timer, an open position and a working order has stopped.
C16_Witness ==
    /\ last.op = "stop" /\ last.done
    /\ StepNames(steps) = <<"cancel_all_time_alerts", "cancel_all_timers",
                             "flatten_all_positions", "cancel_all_orders",
                             "is_running = False", "residual warnings", "on_stop">>
    /\ steps[1].is_running
    /\ Len(sent) = 2
    /\ sent[1].command = "SubmitOrder"
    /\ sent[2].command = "CancelOrder"
    /\ hook_call.hook = "on_stop"
    /\ ~hook_call.seen.is_running

\* The stop sequence scenario: both flags, two active positions, one working entry order.
StopScenario ==
    /\ is_exec_client_registered /\ is_running
    /\ flatten_on_stop /\ cancel_all_orders_on_stop
    /\ positions_active = {"P1", "P2"}
    /\ working_orders = <<"O1">>
    /\ "O1" \in DOMAIN entry_orders

\* What stop sends in the scenario: two EXITs, then the CancelOrder of the entry order.
ScenarioSends(commands) ==
    /\ Len(commands) = 3
    /\ ExitsThenCancels(commands, {"P1", "P2"}, <<"O1">>)

\* C17 as stated: in the scenario stop sends exactly two EXITs, one per position, then one
\* CancelOrder for the entry order; on_stop is called while is_running is still true,
\* and is_running is false afterwards.
C17_StopScenarioHookFirst ==
    [][StopScenario /\ last'.op = "stop"
        => /\ ScenarioSends(sent')
           /\ hooks' = <<"on_stop">>
           /\ hook_call'.seen.is_running
           /\ ~is_running']_vars

\* C17 as amended: in the scenario stop sends exactly two EXITs, one per position, then one
\* CancelOrder for the entry order; is_running is then set to false, and only after
\* that on_stop is called.
C17_StopScenarioFlagFirst ==
    [][StopScenario /\ last'.op = "stop"
        => /\ ScenarioSends(sent')
           /\ hooks' = <<"on_stop">>
           /\ ~hook_call'.seen.is_running
           /\ ~is_running']_vars

C17_Witness ==
    /\ last.op = "stop" /\ last.done
    /\ steps[1].is_running
    /\ flatten_on_stop /\ cancel_all_orders_on_stop
    /\ positions["P1"] = "LONG" /\ positions["P2"] = "SHORT"
    /\ "O1" \in DOMAIN entry_orders
    /\ Len(sent) = 3
    /\ {sent[1].position_id, sent[2].position_id} = {"P1", "P2"}
    /\ sent[3] = CancelOrderCommand("O1", "STOPPING STRATEGY")
    /\ hooks = <<"on_stop">>
    /\ ~is_running

\* C18: every call of stop ends with is_running false and on_stop invoked.
C18_StopCompletes ==
    [][last'.op = "stop" => ~is_running' /\ hooks' = <<"on_stop">>]_vars

\* ---------------------------------------------------------------- reset properties
\* C19: reset on a running strategy is refused: no cache, indicator, counter or ledger
\* changes and no hook is called.
C19_ResetRefusedWhileRunning ==
    [][last'.op = "reset" /\ is_running
        => /\ hooks' = <<>>
           /\ hook_call' = NoHookCall
           /\ steps' = <<>>
           /\ sent' = <<>>
           /\ UNCHANGED <<ticks, bars, updates, indicators, indicator_updaters,
                          order_count, position_count, is_running, entry_orders,
                          stop_loss_orders, take_profit_orders, atomic_order_ids,
                          modify_order_buffer, timers>>]_vars

\* A running strategy holding a tick, a bar, an updated indicator and advanced counters
\* was asked to reset.
C19_Witness ==
    /\ last.op = "reset"
    /\ is_running
    /\ hooks = <<>>
    /\ ticks # EmptyDict
    /\ bars # EmptyDict
    /\ \E i \in Indicators : updates[i] > 0
    /\ order_count > 0
    /\ position_count > 0

\* C20: reset on a non-running strategy empties the tick and bar caches, resets every
\* registered indicator and both identifier generators, and then calls on_reset exactly
\* once, which finds the cleared state.
C20_ResetClears ==
    [][last'.op = "reset" /\ ~is_running
        => /\ ticks' = EmptyDict
           /\ bars' = EmptyDict
           /\ \A bar_type \in DOMAIN indicators :
                 \A i \in 1..Len(indicators[bar_type]) :
                    updates'[indicators[bar_type][i]] = 0
           /\ order_count' = 0
           /\ position_count' = 0
           /\ hooks' = <<"on_reset">>
           /\ hook_call'.hook = "on_reset"
           /\ hook_call'.seen = ObservedNow'
           /\ steps'[Len(steps')].do = "on_reset"
           /\ \A i \in 1..(Len(steps') - 1) : steps'[i].do # "on_reset"
           /\ ~is_running']_vars

\* A stopped strategy with a registered indicator has been reset and on_reset found the
\* caches empty and the counters at zero.
C20_Witness ==
    /\ last.op = "reset"
    /\ ~is_running
    /\ hooks = <<"on_reset">>
    /\ hook_call.hook = "on_reset"
    /\ hook_call.seen.ticks = EmptyDict
    /\ hook_call.seen.bars = EmptyDict
    /\ hook_call.seen.counters = [order_count |-> 0, position_count |-> 0]
    /\ DOMAIN indicators # {}
    /\ \A i \in Indicators : updates[i] = 0
    /\ steps[1].do = "order_factory.reset"

\* ---------------------------------------------------------------- identifier properties
IsGenerateCall(c) == c.op \in {"generate_order_id", "generate_position_id"}

IdsOf(prefix) == {id \in generated : id[1] = prefix}

\* C22: within one run of a generator, whatever the clock does, each generate call takes
\* the counter one up from 0, and the ids produced are pairwise distinct: as many
\* different ids as calls, one for each counter value.
C22_IdsDistinctCountersIncrease ==
    /\ Cardinality(IdsOf("O")) = order_count
    /\ Cardinality(IdsOf("P")) = position_count
    /\ \A n \in 1..order_count : \E t \in Times : _generate("O", t, n) \in generated
    /\ \A n \in 1..position_count : \E t \in Times : _generate("P", t, n) \in generated

\* Two order ids were taken at one clock time and a position id after the clock moved.
C22_Witness ==
    /\ order_count = 2
    /\ position_count = 1
    /\ IsGenerateCall(last)
    /\ \E t \in Times : {_generate("O", t, 1), _generate("O", t, 2)} \subseteq generated
    /\ \E t \in Times : t # TestClockStart /\ _generate("P", t, 1) \in generated

\* C23: no generate call of the strategy's generators returns an id that one of them
\* has produced before, whatever resets and clock changes came in between.
C23_IdsCollisionFree ==
    [][IsGenerateCall(last') => returned'.value \notin generated]_vars

\* The digits of a fixed-width field, most significant first.
FixedWidth(n, width) ==
    [i \in 1..width |-> DigitChars[((n \div (10 ^ (width - i))) % 10) + 1]]

\* prefix-YYYYMMDD-HHMMSS-traderTag-strategyTag-counter
Formatted(prefix, t, counter) ==
    <<prefix, "-">>
        \o FixedWidth(t.year, 4) \o FixedWidth(t.month, 2) \o FixedWidth(t.day, 2)
        \o <<"-">>
        \o FixedWidth(t.hour, 2) \o FixedWidth(t.minute, 2) \o FixedWidth(t.second, 2)
        \o <<"-", "0", "0", "0", "-", "0", "0", "1", "-">>
        \o Digits(counter)

\* C24: generate takes the counter one up and returns
\* prefix-YYYYMMDD-HHMMSS-traderTag-strategyTag-counter for the clock's time, the prefix
\* being O for order ids and P for position ids; an effective reset puts both counters
\* at 0, so that the next id carries counter 1.
C24_GenerateFormat ==
    [][/\ last'.op = "generate_order_id"
            => /\ order_count' = order_count + 1
               /\ returned'.value = Formatted("O", clock_now, order_count + 1)
       /\ last'.op = "generate_position_id"
            => /\ position_count' = position_count + 1
               /\ returned'.value = Formatted("P", clock_now, position_count + 1)
       /\ last'.op = "reset" /\ ~is_running
            => order_count' = 0 /\ position_count' = 0
       /\ IsGenerateCall(last') /\ last.op = "reset"
            => returned'.value = Formatted(returned'.value[1], clock_now, 1)
      ]_vars

\* After ids were taken and the generators reset, the first id at a later clock time.
C24_Witness ==
    /\ last.op = "generate_order_id"
    /\ order_count = 1
    /\ clock_now # TestClockStart
    /\ returned.value = Formatted("O", clock_now, 1)
    /\ Formatted("O", TestClockStart, 2) \in generated
    /\ Formatted("P", TestClockStart, 1) \in generated

\* ---------------------------------------------------------------- replay
ReplayDone == replay.run = 2 /\ is_running /\ RunOver

\* C21: a run replayed after stop and reset sends the execution client the same commands,
\* in the same order, as the run did.
C21_ReplaySendsSame == ReplayDone => replay.second = replay.first

\* ---------------------------------------------------------------- unregistered clients
CommandOps ==
    {"submit_order", "submit_entry_order", "submit_stop_loss_order",
     "submit_take_profit_order", "submit_atomic_order", "modify_order", "cancel_order",
     "cancel_all_orders", "flatten_position", "flatten_all_positions"}

DataOps ==
    {"subscribe_bars", "unsubscribe_bars", "subscribe_ticks", "unsubscribe_ticks",
     "historical_bars"}

\* C25: without an execution client a command operation ends normally, sends nothing and
\* leaves the three registers, the atomic map and the modify buffer as they were;
\* without a data client a subscribe / unsubscribe / historical_bars call makes no call
\* on a data client.
C25_UnregisteredSuppressed ==
    [][/\ ~is_exec_client_registered /\ last'.op \in CommandOps
            => /\ sent' = <<>>
               /\ last'.done
               /\ UNCHANGED <<entry_orders, stop_loss_orders, take_profit_orders,
                              atomic_order_ids, modify_order_buffer>>
       /\ ~is_data_client_registered /\ last'.op \in DataOps
            => data_calls' = <<>>
      ]_vars

\* ---------------------------------------------------------------- accessors
AccessorOps == {"bars", "bar", "last_bar", "last_tick"}

\* The bars a bar type's deque holds, newest first, given the bars delivered.
Held(bar_type) ==
    NewestFirst(bar_hist[bar_type], Min(Len(bar_hist[bar_type]), bar_capacity))

\* C26: an accessor changes nothing. last_tick raises for a symbol without a tick and
\* returns the tick just handled for the symbol otherwise; bars, bar and last_bar raise
\* for a bar type with no bar delivered since the last reset, bar raises for an index
\* below 0 or not below the number of bars held; otherwise bars returns the bars held,
\* newest first, bar(bt, i) the i-th newest and last_bar the newest.
C26_AccessorsFailOrReturn ==
    [][last'.op \in AccessorOps
        => /\ UNCHANGED <<ticks, bars, indicators, indicator_updaters, updates,
                          entry_orders, stop_loss_orders, take_profit_orders,
                          atomic_order_ids, modify_order_buffer, order_count,
                          position_count, is_running, timers>>
           /\ sent' = <<>> /\ hooks' = <<>>
           /\ last'.op = "last_tick"
                => /\ returned'.kind = "error" <=> last'.id \notin DOMAIN ticks
                   /\ last.op = "handle_tick" /\ last.id = last'.id
                        => returned' = Value(last.arg)
           /\ last'.op \in {"bars", "bar", "last_bar"}
                => LET held == Held(last'.id)
                   IN  /\ returned'.kind = "error"
                            <=> \/ bar_hist[last'.id] = <<>>
                                \/ /\ last'.op = "bar"
                                   /\ last'.arg < 0 \/ last'.arg >= Len(held)
                       /\ returned'.kind = "value"
                            => returned'.value =
                                CASE last'.op = "bars" -> held
                                  [] last'.op = "bar" -> held[last'.arg + 1]
                                  [] last'.op = "last_bar" -> held[1]
      ]_vars

\* bar(bt, 1) returned the older of two different bars held, after an older bar had
\* left the deque.
C26_Witness ==
    /\ last.op = "bar"
    /\ last.arg = 1
    /\ Len(bar_hist[last.id]) > bar_capacity
    /\ returned.kind = "value"
    /\ returned.value # bars[last.id][1]

\* ---------------------------------------------------------------- arrivals
HandleOps == {"handle_tick", "handle_bar", "handle_event"}

\* The orders a call sent a ModifyOrder for.
ModifiesSent(commands) ==
    {commands[i].order_id : i \in {j \in DOMAIN commands : commands[j].command = "ModifyOrder"}}

C28_DisposeReleases ==
    [][/\ last'.op = "dispose"
            => /\ hooks' = <<"on_dispose">>
               /\ last'.done
               /\ ~hook_call'.escaped
               /\ ~is_exec_client_registered'
               /\ ~is_data_client_registered'
       /\ last.op = "dispose" /\ last'.op \in CommandOps => sent' = <<>>
      ]_vars

\* ---------------------------------------------------------------- indicators initialized
\* The bar type's indicators are each registered once, for this bar type only, before
\* the first bar delivered since the last reset.
RegisteredOnceBeforeBars(bar_type) ==
    /\ bar_type \in DOMAIN indicators
    /\ \A k \in 1..Len(indicators[bar_type]) :
        /\ bound_at[bar_type][k] = 0
        /\ \A bt \in BarTypes :
               UpdatersOf(bt, indicators[bar_type][k]) = IF bt = bar_type THEN 1 ELSE 0

\* C29: indicators_initialized(bt) fails for a bar type with no registered indicator and
\* returns otherwise whether every indicator registered for bt reports initialized;
\* indicators_initialized_all returns whether every indicator of every bar type does
\* (true when none is registered).  With indicators that initialize after period
\* updates, indicators_initialized(bt) is true exactly from the period-th bar delivered
\* for bt since the last reset.
C29_IndicatorsInitialized ==
    [][/\ last'.op = "indicators_initialized"
            => IF last'.id \notin DOMAIN indicators
               THEN returned'.kind = "error"
               ELSE /\ returned' = Value(AllInitialized(indicators[last'.id]))
                    /\ RegisteredOnceBeforeBars(last'.id)
                         => returned'.value = (Len(bar_hist[last'.id]) >= period)
       /\ last'.op = "indicators_initialized_all"
            => returned' = Value(\A bt \in DOMAIN indicators :
                                    AllInitialized(indicators[bt]))
      ]_vars

\* ---------------------------------------------------------------- flatten
\* C30: with an execution client registered, flatten_position of a position the
\* portfolio holds sends nothing when the position is FLAT and otherwise exactly one
\* SubmitOrder with a market EXIT order, SELL for LONG and BUY for SHORT, of the
\* position's quantity, tagged with the position id; flatten_all_positions sends one
\* such command for each active position, none for a flat one and none when no
\* position is active.
C30_FlattenSends ==
    [][/\ is_exec_client_registered /\ last'.op = "flatten_position"
          /\ is_entered(last'.pos)
            => IF positions[last'.pos] = "FLAT"
               THEN sent' = <<>>
               ELSE /\ Len(sent') = 1
                    /\ IsFlattenOf(sent'[1], last'.pos)
                    /\ sent'[1].order.type = "MARKET"
       /\ is_exec_client_registered /\ last'.op = "flatten_all_positions"
            => /\ Len(sent') = Cardinality(positions_active)
               /\ \A p \in positions_active :
                    Cardinality({i \in DOMAIN sent' : IsFlattenOf(sent'[i], p)}) = 1
               /\ \A i \in DOMAIN sent' :
                    /\ sent'[i].position_id \in positions_active
                    /\ sent'[i].order.type = "MARKET"
      ]_vars

\* flatten_all_positions was handed a flat position and a SHORT one and sent one BUY.
C30_Witness ==
    /\ last.op = "flatten_all_positions"
    /\ is_exec_client_registered
    /\ \E p \in PositionIds : positions[p] = "FLAT"
    /\ Len(sent) = 1
    /\ sent[1].order.side = "BUY"
    /\ positions[sent[1].position_id] = "SHORT"

\* ---------------------------------------------------------------- filled parents
\* The children recorded under a parent key of the map.
ChildrenOf(parent) ==
    {atomic_order_ids[parent][i] : i \in 1..Len(atomic_order_ids[parent])}

\* C31: handle_event(OrderFilled) for a parent key X of atomic_order_ids drops the entry
\* of X and leaves X in no register, X's children staying in the registers they were in;
\* a terminal event for an order that is no parent key removes no other order from a
\* register and leaves the map alone.
C31_FilledParentKeepsChildren ==
    [][/\ (IsHandled({"OrderFilled"}))' /\ last'.id \in DOMAIN atomic_order_ids
            => /\ last'.id \notin DOMAIN atomic_order_ids'
               /\ ~InRegisters(Ledger', last'.id)
               /\ \A c \in ChildrenOf(last'.id) \ {last'.id} :
                    RegistersHolding(Ledger', c) = RegistersHolding(Ledger, c)
       /\ (IsHandled(TerminalEvents))' /\ last'.id \notin DOMAIN atomic_order_ids
            => /\ atomic_order_ids' = atomic_order_ids
               /\ \A id \in OrderIds \ {last'.id} :
                    RegistersHolding(Ledger', id) = RegistersHolding(Ledger, id)
      ]_vars

\* ---------------------------------------------------------------- events that change nothing
\* The buffer holds the same for every order but the one given.
BufferSameBut(order_id) ==
    \A o \in OrderIds \ {order_id} :
        /\ o \in DOMAIN modify_order_buffer' <=> o \in DOMAIN modify_order_buffer
        /\ o \in DOMAIN modify_order_buffer
            => modify_order_buffer'[o] = modify_order_buffer[o]

\* The order is in no register and is no parent key of the map.
Untracked(order_id) ==
    ~InRegisters(Ledger, order_id) /\ order_id \notin DOMAIN atomic_order_ids

\* C32: handle_event leaves the registers, atomic_order_ids and the modify buffer as they
\* are for OrderPartiallyFilled and for an event that is no order event; for
\* OrderModified and OrderCancelReject it changes at most the buffer entry of the
\* event's order; a terminal event for an order in no register that is no parent key
\* changes none of them.
C32_EventsLeaveLedger ==
    [][(IsHandled(EventTypes))'
        => /\ last'.type \in {"OrderPartiallyFilled", "TimeEvent"}
                => Ledger' = Ledger /\ UNCHANGED modify_order_buffer
           /\ last'.type \in AckEvents
                => Ledger' = Ledger /\ BufferSameBut(last'.id)
           /\ last'.type \in TerminalEvents /\ Untracked(last'.id)
                => Ledger' = Ledger /\ UNCHANGED modify_order_buffer
      ]_vars

\* A partial fill of a registered atomic parent was handled while a modify was buffered.
C32_Witness ==
    /\ IsHandled({"OrderPartiallyFilled"})
    /\ last.id \in DOMAIN atomic_order_ids
    /\ last.id \in DOMAIN entry_orders
    /\ modify_order_buffer # EmptyDict

\* ---------------------------------------------------------------- change of clock
\* C33: change_clock(c) makes c the strategy's clock and leaves the registers,
\* atomic_order_ids, the modify buffer, the caches and is_running as they are; the
\* first order id and the first position id generated afterwards carry c's date and
\* time and the counter 1; the clock's TimeEvents still reach handle_event.
C33_ChangeClockRebuilds ==
    [][/\ last'.op = "change_clock"
            => /\ clock_now' = last'.arg
               /\ Ledger' = Ledger
               /\ UNCHANGED <<modify_order_buffer, ticks, bars, indicators, updates,
                              is_running>>
               /\ Counters' = [order_count |-> 0, position_count |-> 0]
       /\ last.op = "change_clock" /\ last'.op = "generate_order_id"
            => returned' = Value(Formatted("O", last.arg, 1))
       /\ last.op = "change_clock" /\ last'.op = "generate_position_id"
            => returned' = Value(Formatted("P", last.arg, 1))
       /\ last.op = "change_clock" /\ last'.op = "handle_event"
            => last'.type = "TimeEvent" /\ hooks' = OnEventHook
      ]_vars

\* The first order id after a change of clock: the new clock's time and the counter 1,
\* two order ids having been generated on the first clock; the strategy is running and
\* holds an order, a tick and a bar.
C33_Witness ==
    /\ last.op = "generate_order_id"
    /\ clock_now # TestClockStart
    /\ returned = Value(Formatted("O", clock_now, 1))
    /\ Formatted("O", TestClockStart, 2) \in generated
    /\ is_running
    /\ entry_orders # EmptyDict
    /\ ticks # EmptyDict
    /\ bars # EmptyDict

\* ---------------------------------------------------------------- registered orders read back
\* The register an accessor reads.
RegisterOf(op) ==
    CASE op = "entry_order" -> entry_orders
      [] op = "stop_loss_order" -> stop_loss_orders
      [] op = "take_profit_order" -> take_profit_orders

\* C34: entry_order(id), stop_loss_order(id) and take_profit_order(id) return the Order
\* their register holds under id, the one registered last, and raise an error when the
\* register has no such key; they change no register.
C34_RegisteredOrderReturned ==
    [][last'.op \in {"entry_order", "stop_loss_order", "take_profit_order"}
        => /\ Ledger' = Ledger
           /\ IF last'.id \in DOMAIN RegisterOf(last'.op)
              THEN returned' = Value(RegisterOf(last'.op)[last'.id])
              ELSE returned'.kind = "error"
      ]_vars

\* ---------------------------------------------------------------- a command sent once
\* The command a modify_order call has just sent is the order's only unanswered one, and
\* the execution client's answer to it is handled.
SoleCommandAnswered ==
    /\ last.op = "modify_order"
    /\ sent # <<>>
    /\ Len(inflight[last.id]) = 1
    /\ (IsHandled(AckEvents))'
    /\ last'.id = last.id

\* C35: a ModifyOrder command is sent at most once: when the only unanswered command of
\* an order is the one the modify_order call just made has sent (no later call has
\* replaced it in the buffer) and the execution client answers it with OrderModified or
\* OrderCancelReject, handling the answer sends no ModifyOrder command.
C35_AcknowledgedNotResent ==
    [][SoleCommandAnswered => sent' = <<>>]_vars

\* ---------------------------------------------------------------- coalescing ends
\* The price p is the one modify_order was last called with for the order and is held
\* in the buffer.
LastRequested(order_id, p) ==
    /\ order_id \in DOMAIN modify_order_buffer
    /\ modify_order_buffer[order_id] = p

\* modify_order was called again for the order with another price.
RequestedAnew(order_id, p) ==
    /\ order_id \in DOMAIN modify_order_buffer
    /\ modify_order_buffer[order_id] # p

\* An answer for the order has been handled: the buffer has no entry for it, and the
\* price p has been sent to the execution client or is the order's current price.
Settled(order_id, p) ==
    /\ IsHandled(AckEvents)
    /\ last.id = order_id
    /\ order_id \notin DOMAIN modify_order_buffer
    /\ \/ sent = <<ModifyOrderCommand(order_id, p)>>
       \/ sent = <<>> /\ order_price[order_id] = p

\* C36: with an execution client that answers every ModifyOrder command, a price
\* requested by modify_order and held in the buffer leads, unless modify_order is called
\* again with another price, to a point where the buffer has no entry for the order and
\* that price has been sent or is the order's current price. Once the strategy stops
\* calling modify_order the price held is the last one requested.
C36_CoalescingEnds ==
    \A p \in Prices :
        LastRequested("O1", p) ~> (Settled("O1", p) \/ RequestedAnew("O1", p))

\* A rejected command's answer is handled and the price held in the buffer goes out.
C36_Witness ==
    /\ IsHandled({"OrderCancelReject"})
    /\ last.id \notin DOMAIN modify_order_buffer
    /\ Len(sent) = 1
    /\ sent[1].modified_price # order_price[last.id]

\* ---------------------------------------------------------------- the map of atomic orders
\* The child ids of an atomic order with the given parent: the stop-loss, then the
\* take-profit when it has one.
StopLossThenTakeProfit(parent, children) ==
    \E a \in AtomicOrders :
        /\ a.entry.id = parent
        /\ children[1] = a.stop_loss.id
        /\ IF a.take_profit = NoOrder
           THEN Len(children) = 1
           ELSE Len(children) = 2 /\ children[2] = a.take_profit.id

\* C37: between calls, every parent id of atomic_order_ids is a key of entry_orders and
\* maps to one or two child ids, the stop-loss's first and then the take-profit's; no
\* id is the parent of one atomic order and the child of another.
C37_AtomicMapWellFormed ==
    \A parent \in DOMAIN atomic_order_ids :
        /\ parent \in DOMAIN entry_orders
        /\ Len(atomic_order_ids[parent]) \in {1, 2}
        /\ StopLossThenTakeProfit(parent, atomic_order_ids[parent])

\* A child's terminal event has been handled and its parent is still tracked with both
\* child ids.
C37_Witness ==
    /\ IsHandled(TerminalEvents)
    /\ "O1" \in DOMAIN atomic_order_ids
    /\ Len(atomic_order_ids["O1"]) = 2
    /\ last.id = atomic_order_ids["O1"][2]
    /\ last.id \notin DOMAIN take_profit_orders

ExitsIn(commands, position_id) ==
    \E i \in DOMAIN commands : IsFlattenOf(commands[i], position_id)

\* The last call has submitted an EXIT order for the position, and the next call comes
\* before anything has happened to that order.
ExitUnfilled(position_id) ==
    /\ last.op \in {"flatten_position", "flatten_all_positions"}
    /\ ExitsIn(sent, position_id)

\* C39: while an EXIT order the strategy has submitted for a position is unfilled, no
\* call submits a second EXIT order for that position.
C39_OneExitOutstanding ==
    [][\A p \in PositionIds : ExitUnfilled(p) => ~ExitsIn(sent', p)]_vars

\* ---------------------------------------------------------------- the trader's tag
\* The trader tag of an identifier: the three characters after the date-time tag.
TraderTagOf(id) == SubSeq(id, 19, 21)

\* C40: every OrderId and PositionId the strategy generates carries the trader tag the
\* strategy is registered with, the one given to the last register_trader_id.
C40_IdsCarryRegisteredTag ==
    [][last'.op \in {"generate_order_id", "generate_position_id"}
        => TraderTagOf(returned'.value) = identification.id_tag_trader]_vars

====
